---- MODULE Spec2Model ----
(***************************************************************************)
(* A model of the persistent write-back cache of tigrisfs: the cache       *)
(* cleaner (pkg/cache/cleaner), the failsafe monitor (pkg/cache/failsafe), *)
(* the uploader (pkg/cache/uploader), the bbolt cache index                *)
(* (pkg/cache/index/bbolt), the container store (pkg/cache/files), the     *)
(* chunk provider of the uploader and the configuration file.              *)
(*                                                                         *)
(* Each subsystem has its own specification over its own group of          *)
(* variables; the other groups stay at their initial value:                *)
(*   SpecCleaner    cleaner passes, index writers, HandleENOSPC callers    *)
(*   SpecUploader   Run, the scan loop, the workers and the task channel   *)
(*   FairSpecUploader  the same steps fairly scheduled: one worker, three  *)
(*                  records                                                *)
(*   SpecPausable   the uploader with PauseUploads / ResumeUploads          *)
(*   SpecContainer  OpenContainer / WriteAt / Close on one committed path  *)
(*   SpecClients    concurrent Index.Update / Index.Get on one path        *)
(*   SpecIndex      Open, the CacheIndex calls and Close on one database    *)
(*   SpecEviction   cleaner passes over three files of recorded size        *)
(*   SpecProvider   LocalFileChunkProvider.OpenChunk and its stream          *)
(*   SpecConfig     LoadConfig on a config.yaml an operator edits            *)
(***************************************************************************)
EXTENDS Integers, Sequences, FiniteSets, TLC

(***************************************************************************)
(* Cache index, files bucket, and the cache directory                      *)
(***************************************************************************)
VARIABLES
    files,      \* index bucket "files": path -> FileMeta (a function on the stored keys)
    disk,       \* cache directory: path -> size of the container file (on the existing files)
    ccfg,       \* cleaner.Config and the capacity of the disk-usage probe
    cctx,       \* TRUE once the context handed to the cleaner and the monitor is cancelled
    pass,       \* the RunOnce call that holds Cleaner.mu (pc = "idle": nobody holds it)
    hcall,      \* HandleENOSPC caller -> position, counted calls and result of its call
    recovering, \* Monitor.recovering
    writes      \* index writes made by the host so far (bounded)

cleanerVars == <<files, disk, ccfg, cctx, pass, hcall, recovering, writes>>

(***************************************************************************)
(* Cache index, uploads bucket, and the Uploader                           *)
(***************************************************************************)
VARIABLES
    uploads,    \* index bucket "uploads": id -> UploadRecord
    ucfg,       \* uploader.Config, the journal's length and what the backend may answer
    uctx,       \* TRUE once the context handed to Uploader.Run is cancelled
    up,         \* the Uploader's fields: running, tasks (set or nil), queued, inFlight
    tasks,      \* the task channel made by Run: its buffer and whether it is closed
    run,        \* the goroutine in Run: position, the ListUploads snapshot, the record in enqueue
    ticks,      \* ticker firings so far (bounded)
    wk,         \* worker -> position, the record it received, the record it re-enqueues
    calls,      \* id -> Backend.Upload invocations so far
    metrics,    \* id -> the reasons handed to Metrics.RecordFailed, in order
    slept       \* id -> the delays handed to Sleeper.Sleep, in order

uploaderVars == <<uploads, ucfg, uctx, up, tasks, run, ticks, wk, calls, metrics, slept>>

(***************************************************************************)
(* One Container and the two paths it works on                             *)
(***************************************************************************)
VARIABLES
    finalFile,  \* the committed path: whether a file is there, and its bytes
    tempFile,   \* the staging path: whether a file is there, and its bytes
    cont,       \* the Container: position, closed, what Close returned, and what it started from
    crashed     \* TRUE once the process has crashed

containerVars == <<finalFile, tempFile, cont, crashed>>

(***************************************************************************)
(* The UploaderController the monitor is given.  The package declares the  *)
(* interface; the Uploader has no PauseUploads or ResumeUploads, so the     *)
(* paused uploader follows the design document.                            *)
(***************************************************************************)
VARIABLES
    paused      \* TRUE between a successful PauseUploads and the next ResumeUploads

pauseVars == <<paused>>

(***************************************************************************)
(* Callers of the index and the bbolt database under it                    *)
(***************************************************************************)
VARIABLES
    dbLock,     \* the caller whose read-write transaction holds bbolt's writer lock, or "none"
    cl,         \* caller -> position in Index.Update / Index.Get, the call, what its transaction read and will put
    clock       \* time.Now(), as a count of the instants read so far

clientVars == <<dbLock, cl, clock>>

(***************************************************************************)
(* One bbolt database file and the Index opened on it, called by one       *)
(* caller at a time                                                        *)
(***************************************************************************)
VARIABLES
    db,         \* the database file: its buckets and what they store (encoded)
    ix,         \* the Index: whether its handle is open, and what the last call returned
    wall        \* the wall clock time.Now() reads (it can stand still or be set back)

dbVars == <<db, ix, wall>>

\* The LocalFileChunkProvider of the uploader (pkg/cache/uploader) with the
\* files it can reach, and the stream of its last OpenChunk.
VARIABLES
    cp

providerVars == <<cp>>

\* config.yaml and the outcome of the last LoadConfig (pkg/cache/config.go).
VARIABLES
    cf

configVars == <<cf>>

vars ==
    <<cleanerVars, uploaderVars, containerVars, pauseVars, clientVars, dbVars, providerVars,
      configVars>>

\* What the actions of one subsystem leave alone.
NotCleaner ==
    <<uploaderVars, containerVars, pauseVars, clientVars, dbVars, providerVars, configVars>>
NotUploader ==
    <<disk, ccfg, cctx, pass, hcall, recovering, writes, containerVars, pauseVars, clientVars,
      dbVars, providerVars, configVars>>
NotContainer ==
    <<cleanerVars, uploaderVars, pauseVars, clientVars, dbVars, providerVars, configVars>>
NotClients ==
    <<disk, ccfg, cctx, pass, hcall, recovering, writes, uploaderVars, containerVars, pauseVars,
      dbVars, providerVars, configVars>>
NotIndex ==
    <<cleanerVars, uploaderVars, containerVars, pauseVars, clientVars, providerVars, configVars>>
NotProvider ==
    <<cleanerVars, uploaderVars, containerVars, pauseVars, clientVars, dbVars, configVars>>
NotConfig ==
    <<cleanerVars, uploaderVars, containerVars, pauseVars, clientVars, dbVars, providerVars>>

\* math.MaxInt64, the limit RunOnce uses when MaxCacheBytes <= 0 (the largest
\* integer of the model stands for it).
MaxInt64 == 2147483647

\* How many index writes (Update marking a chunk dirty) the host makes.
MaxWrites == 1

\* Ticker firings of Uploader.Run explored.
MaxTicks == 1

\* Longest container file explored, in bytes.
MaxFileLen == 2

\* OpenContainer calls made on the path, one after the other.
MaxOpens == 2

\* Index calls each caller makes.
MaxCalls == 1

Paths == {"a", "b"}
Handlers == {"h1", "h2"}
FileSizes == {30, 60}
\* Size of the container file relative to FileMeta.Size: equal, larger, smaller, or no file.
DiskKinds == {"same", "larger", "smaller", "missing"}
\* capacityFromConfig: the capacity New gives the directory probe.
capacityFromConfig(maxCacheBytes) ==
    IF maxCacheBytes <= 0 THEN 0
    ELSE IF maxCacheBytes > MaxInt64 THEN MaxInt64 ELSE maxCacheBytes

\* The configurations explored; the probe is New's dirDiskUsage or, as in the
\* package's tests, a disk of 120 bytes handed in with WithDiskUsage.
CleanerConfigs ==
    { [MaxCacheBytes |-> m, MinFreePercent |-> p,
       capacity |-> IF fake THEN 120 ELSE capacityFromConfig(m)] :
        m \in {0, 50, 500}, p \in {0, 70}, fake \in BOOLEAN }

RECURSIVE SumSeq(_)
SumSeq(s) == IF s = <<>> THEN 0 ELSE Head(s) + SumSeq(Tail(s))

RECURSIVE SumOver(_, _)
SumOver(f, S) ==
    IF S = {} THEN 0
    ELSE LET x == CHOOSE y \in S : TRUE IN f[x] + SumOver(f, S \ {x})

Min(a, b) == IF a < b THEN a ELSE b

\* index.FileMeta with one chunk covering the file.
FileMeta(path, size, dirty, atime) ==
    [Path |-> path, Size |-> size,
     Chunks |-> << [Offset |-> 0, Length |-> size, Dirty |-> dirty] >>,
     AtimeLocal |-> atime]

\* sortFileMetasByAtime: the order sort.Slice may leave, ascending AtimeLocal
\* (the order of equal AtimeLocal is whatever the sort produces).
SortedByAtime(s) ==
    \A i, j \in DOMAIN s : i < j => s[i].AtimeLocal <= s[j].AtimeLocal

\* Index.ListLRU(ctx, 0): every stored FileMeta, sorted by AtimeLocal.
ListLRU(f) ==
    LET n == Cardinality(DOMAIN f) IN
    { s \in [1..n -> {f[p] : p \in DOMAIN f}] :
        /\ \A i, j \in 1..n : i # j => s[i] # s[j]
        /\ SortedByAtime(s) }

\* Index.Delete: removing a missing key is not an error.
IndexDelete(f, path) == [q \in (DOMAIN f) \ {path} |-> f[q]]

\* The function a writer hands to Index.Update to mark every chunk dirty.
MarkDirty(meta) ==
    [meta EXCEPT !.Chunks = [i \in DOMAIN meta.Chunks |-> [meta.Chunks[i] EXCEPT !.Dirty = TRUE]]]

\* Index.Update(path, fn) for that function: the stored entry is replaced by fn's result.
IndexUpdateMarkDirty(f, path) == [f EXCEPT ![path] = MarkDirty(f[path])]

\* totalSize
totalSize(metas) == SumSeq([i \in DOMAIN metas |-> metas[i].Size])

\* requiredFreeBytes
requiredFreeBytes(total, percent) ==
    IF percent <= 0 \/ total = 0 THEN 0 ELSE (total * percent) \div 100

\* isEvictable
isEvictable(meta) == \A i \in DOMAIN meta.Chunks : ~meta.Chunks[i].Dirty

\* dirDiskUsage.Stat / fakeDisk.Stat: <<capacity, free>> from the files on disk.
DiskStat(d, capacity) ==
    LET used0 == SumOver(d, DOMAIN d)
        cap1 == IF capacity = 0 THEN used0 ELSE capacity
        cap == IF cap1 = 0 THEN 1 ELSE cap1
        used == Min(used0, cap)
    IN <<cap, cap - used>>

\* Sum of FileMeta.Size over the entries the index holds.
IndexTotal(f) == SumOver([p \in DOMAIN f |-> f[p].Size], DOMAIN f)

IdlePass ==
    [pc |-> "idle", owner |-> "none", reason |-> "none", metas |-> <<>>, i |-> 0,
     usage |-> 0, limit |-> 0, freeCap |-> 0, targetFree |-> 0, emergency |-> FALSE,
     bytesFreed |-> 0, evicted |-> <<>>, totalBefore |-> 0, size |-> 0]

IdleCall ==
    [pc |-> "idle", pauses |-> 0, cleanerRuns |-> 0, resumes |-> 0,
     cleanerErr |-> "none", result |-> "none"]

CleanerInit ==
    /\ \E sz \in [Paths -> FileSizes], dt \in [Paths -> BOOLEAN], dk \in [Paths -> DiskKinds] :
          /\ files = [p \in Paths |->
                        FileMeta(p, sz[p], dt[p], IF p = "a" THEN 1 ELSE 2)]
          /\ disk = [p \in {q \in Paths : dk[q] # "missing"} |->
                        IF dk[p] = "same" THEN sz[p]
                        ELSE IF dk[p] = "larger" THEN sz[p] + 30 ELSE sz[p] - 10]
    /\ ccfg \in CleanerConfigs
    /\ cctx = FALSE
    /\ pass = IdlePass
    /\ hcall = [h \in Handlers |-> IdleCall]
    /\ recovering = FALSE
    /\ writes = 0

(***************************************************************************)
(* Cleaner.RunOnce                                                         *)
(***************************************************************************)

\* RunOnce up to the loop: lock, ListLRU snapshot, totalSize, limit, disk.Stat,
\* requiredFreeBytes.
RunOnceStart(owner, reason, metas) ==
    LET st == DiskStat(disk, ccfg.capacity)
        requiredFree == requiredFreeBytes(st[1], ccfg.MinFreePercent)
        usage == totalSize(metas)
    IN [pc |-> "loop", owner |-> owner, reason |-> reason, metas |-> metas, i |-> 1,
        usage |-> usage,
        limit |-> IF ccfg.MaxCacheBytes <= 0 THEN MaxInt64 ELSE ccfg.MaxCacheBytes,
        freeCap |-> st[2], targetFree |-> requiredFree,
        emergency |-> (reason = "enospc" /\ requiredFree > 0),
        bytesFreed |-> 0, evicted |-> <<>>, totalBefore |-> usage, size |-> 0]

\* RunOnce returns err to its caller: the mutex is released, a HandleENOSPC
\* caller goes on with the error.
Return(p, err) ==
    /\ pass' = IdlePass
    /\ hcall' = IF p.owner \in Handlers
                  THEN [hcall EXCEPT ![p.owner].pc = "cleaned", ![p.owner].cleanerErr = err]
                  ELSE hcall

\* A loop that never stops before the end of the snapshot.
ThresholdsNeverMet(p) == FALSE

\* The loop's stop condition.
ThresholdsMet(p) == p.usage <= p.limit /\ (~p.emergency \/ p.freeCap >= p.targetFree)

\* RunBackground's ticker: a maintenance pass.
MaintenanceRun ==
    /\ pass.pc = "idle"
    /\ ~cctx
    /\ \E metas \in ListLRU(files) : pass' = RunOnceStart("bg", "maintenance", metas)
    /\ UNCHANGED <<files, disk, ccfg, cctx, hcall, recovering, writes>>
    /\ UNCHANGED NotCleaner

\* The size evict reports: the file's size when os.Stat finds the file,
\* FileMeta.Size when there is none.
EvictSize(meta, d) == IF meta.Path \in DOMAIN d THEN d[meta.Path] ELSE meta.Size

\* One iteration of the loop, up to and including evict's os.Stat and os.Remove.
LoopStep ==
    /\ pass.pc = "loop"
    /\ IF pass.i > Len(pass.metas)
         THEN /\ pass' = [pass EXCEPT !.pc = "finish"]
              /\ UNCHANGED <<disk, hcall>>
         ELSE IF cctx
         THEN /\ Return(pass, "ctx")
              /\ UNCHANGED disk
         ELSE IF ThresholdsMet(pass)
         THEN /\ pass' = [pass EXCEPT !.pc = "finish"]
              /\ UNCHANGED <<disk, hcall>>
         ELSE IF ~isEvictable(pass.metas[pass.i])
         THEN /\ pass' = [pass EXCEPT !.i = @ + 1]
              /\ UNCHANGED <<disk, hcall>>
         ELSE /\ pass' = [pass EXCEPT !.pc = "delete",
                                      !.size = EvictSize(pass.metas[pass.i], disk)]
              /\ disk' = [q \in (DOMAIN disk) \ {pass.metas[pass.i].Path} |-> disk[q]]
              /\ UNCHANGED hcall
    /\ UNCHANGED <<files, ccfg, cctx, recovering, writes>>
    /\ UNCHANGED NotCleaner

\* The rest of evict (idx.Delete) and of the iteration: the usage, the report
\* and the free-space estimate.  A cancelled context fails the Delete: evict
\* returns an error, which the loop logs before going on.
DeleteStep ==
    /\ pass.pc = "delete"
    /\ IF cctx
         THEN /\ pass' = [pass EXCEPT !.pc = "loop", !.i = @ + 1, !.size = 0]
              /\ UNCHANGED files
         ELSE LET meta == pass.metas[pass.i]
                  freed == pass.size
                  u == pass.usage - freed
              IN /\ files' = IndexDelete(files, meta.Path)
                 /\ pass' = [pass EXCEPT !.pc = "loop", !.i = @ + 1, !.size = 0,
                                         !.usage = IF u < 0 THEN 0 ELSE u,
                                         !.bytesFreed = @ + freed,
                                         !.evicted = Append(@, meta.Path),
                                         !.freeCap = IF freed > 0 THEN @ + freed ELSE @]
    /\ UNCHANGED <<disk, ccfg, cctx, hcall, recovering, writes>>
    /\ UNCHANGED NotCleaner

\* What RunOnce returns after the loop: the capacity check, then the free
\* space probed again for an emergency pass.
FinishErr(p, d) ==
    LET st == DiskStat(d, ccfg.capacity) IN
    IF p.usage > p.limit THEN "ErrCapacityNotReduced"
    ELSE IF p.emergency /\ st[1] > 0 /\ st[2] < p.targetFree THEN "ErrFatalCondition"
    ELSE "nil"

FinishStep ==
    /\ pass.pc = "finish"
    /\ Return(pass, FinishErr(pass, disk))
    /\ UNCHANGED <<files, disk, ccfg, cctx, recovering, writes>>
    /\ UNCHANGED NotCleaner

(***************************************************************************)
(* The host: a writer that marks a cached file dirty, and cancellation     *)
(***************************************************************************)
HostMarkDirty(path) ==
    /\ writes < MaxWrites
    /\ path \in DOMAIN files
    /\ isEvictable(files[path])
    /\ files' = IndexUpdateMarkDirty(files, path)
    /\ writes' = writes + 1
    /\ UNCHANGED <<disk, ccfg, cctx, pass, hcall, recovering>>
    /\ UNCHANGED NotCleaner

CancelCleanerCtx ==
    /\ ~cctx
    /\ cctx' = TRUE
    /\ UNCHANGED <<files, disk, ccfg, pass, hcall, recovering, writes>>
    /\ UNCHANGED NotCleaner

(***************************************************************************)
(* Monitor.HandleENOSPC                                                    *)
(***************************************************************************)

\* beginRecovery without the test of m.recovering.
beginRecoveryAlways(rec) == TRUE

\* beginRecovery
beginRecovery(rec) == ~rec

\* HandleENOSPC up to beginRecovery.  A call that returns before the defer
\* of endRecovery is at "return", one that returns after it at "exit".
HandleEnter(h) ==
    /\ hcall[h].pc = "idle"
    /\ IF cctx
         THEN /\ hcall' = [hcall EXCEPT ![h].pc = "return", ![h].result = "ctx"]
              /\ UNCHANGED recovering
         ELSE IF ~beginRecovery(recovering)
         THEN /\ hcall' = [hcall EXCEPT ![h].pc = "return", ![h].result = "ErrRecoveryInProgress"]
              /\ UNCHANGED recovering
         ELSE /\ hcall' = [hcall EXCEPT ![h].pc = "pause"]
              /\ recovering' = TRUE
    /\ UNCHANGED <<files, disk, ccfg, cctx, pass, writes>>
    /\ UNCHANGED NotCleaner

\* HandleENOSPC going on to the cleaner whatever PauseUploads answered.
AfterPauseRuns(ok) == "run"

\* Where HandleENOSPC goes after PauseUploads: on to the cleaner, or out with
\* the error.
AfterPause(ok) == IF ok THEN "run" ELSE "exit"

\* uploader.PauseUploads: the controller answers with success or an error.
HandlePause(h) ==
    /\ hcall[h].pc = "pause"
    /\ \E ok \in BOOLEAN :
          hcall' = [hcall EXCEPT ![h].pauses = @ + 1,
                                 ![h].pc = AfterPause(ok),
                                 ![h].result = IF ok THEN "none" ELSE "pause_err"]
    /\ UNCHANGED <<files, disk, ccfg, cctx, pass, recovering, writes>>
    /\ UNCHANGED NotCleaner

\* cleaner.RunOnce(ctx, Trigger{Reason: enospc}): waits for Cleaner.mu; with a
\* cancelled context ListLRU fails and RunOnce returns at once.
HandleRunCleaner(h) ==
    /\ hcall[h].pc = "run"
    /\ pass.pc = "idle"
    /\ IF cctx
         THEN /\ hcall' = [hcall EXCEPT ![h].cleanerRuns = @ + 1, ![h].pc = "cleaned",
                                        ![h].cleanerErr = "ctx"]
              /\ UNCHANGED pass
         ELSE /\ hcall' = [hcall EXCEPT ![h].cleanerRuns = @ + 1, ![h].pc = "cleaning"]
              /\ \E metas \in ListLRU(files) : pass' = RunOnceStart(h, "enospc", metas)
    /\ UNCHANGED <<files, disk, ccfg, cctx, recovering, writes>>
    /\ UNCHANGED NotCleaner

\* HandleENOSPC resuming the uploader whatever the cleaner returned.
ResumesAlways(err) == TRUE

\* Whether HandleENOSPC resumes the uploader after the cleaner returned err.
ResumesAfter(err) == err # "ErrFatalCondition"

\* HandleENOSPC after RunOnce returned: the error switch and ResumeUploads.
HandleAfterCleaner(h) ==
    /\ hcall[h].pc = "cleaned"
    /\ LET err == hcall[h].cleanerErr IN
       IF ~ResumesAfter(err)
         THEN hcall' = [hcall EXCEPT ![h].pc = "exit", ![h].result = "ErrRecoveryFailed"]
         ELSE \E ok \in BOOLEAN :
                hcall' = [hcall EXCEPT ![h].pc = "exit", ![h].resumes = @ + 1,
                                       ![h].result = IF err # "nil" THEN "cleaner_err"
                                                     ELSE IF ok THEN "nil" ELSE "resume_err"]
    /\ UNCHANGED <<files, disk, ccfg, cctx, pass, recovering, writes>>
    /\ UNCHANGED NotCleaner

\* An endRecovery that leaves m.recovering as it is.
endRecoveryKeeps(rec) == rec

\* endRecovery
endRecovery(rec) == FALSE

\* HandleENOSPC returns hcall[h].result, after the deferred endRecovery if the
\* call had entered recovery.
HandleExit(h) ==
    /\ hcall[h].pc \in {"exit", "return"}
    /\ recovering' = IF hcall[h].pc = "exit" THEN endRecovery(recovering) ELSE recovering
    /\ hcall' = [hcall EXCEPT ![h] = IdleCall]
    /\ UNCHANGED <<files, disk, ccfg, cctx, pass, writes>>
    /\ UNCHANGED NotCleaner

CleanerNext ==
    \/ MaintenanceRun
    \/ LoopStep
    \/ DeleteStep
    \/ FinishStep
    \/ \E path \in Paths : HostMarkDirty(path)
    \/ CancelCleanerCtx
    \/ \E h \in Handlers : HandleEnter(h)
    \/ \E h \in Handlers : HandlePause(h)
    \/ \E h \in Handlers : HandleRunCleaner(h)
    \/ \E h \in Handlers : HandleAfterCleaner(h)
    \/ \E h \in Handlers : HandleExit(h)

UploaderIdle ==
    /\ uploads = <<>>
    /\ ucfg = [workers |-> 0, records |-> 0, MaxAttempts |-> 0, backend |-> "none",
               failFirst |-> 0, BaseRetryDelay |-> 0, MaxRetryDelay |-> 0,
               recording |-> FALSE]
    /\ uctx = FALSE
    /\ up = [running |-> FALSE, tasks |-> FALSE, queued |-> {}, inFlight |-> {}]
    /\ tasks = [buf |-> <<>>, closed |-> FALSE]
    /\ run = [pc |-> "none", list |-> <<>>, rec |-> <<>>]
    /\ ticks = 0
    /\ wk = <<>>
    /\ calls = <<>>
    /\ metrics = <<>>
    /\ slept = <<>>
    /\ paused = FALSE

\* Nobody calls the index.
NoClients ==
    /\ dbLock = "none"
    /\ cl = <<>>
    /\ clock = 0

\* A database file that was never written, and no Index on it.
EmptyDatabase ==
    [buckets |-> {}, schema_version |-> <<>>, upload_seq |-> <<>>,
     files |-> <<>>, uploads |-> <<>>]

NoReturn == [op |-> "none", err |-> "nil", val |-> <<>>]

NoDatabase ==
    /\ db = EmptyDatabase
    /\ ix = [open |-> FALSE, ret |-> NoReturn]
    /\ wall = 0

\* No LocalFileChunkProvider, and nothing it could open.
NoProvider == cp = <<>>

\* No config.yaml, and LoadConfig never called.
NoConfig == cf = <<>>

\* No file at a path.
NoFile == [exists |-> FALSE, bytes |-> <<>>]

\* What a method of the Container returned last.
NoCall == [op |-> "none", err |-> "nil", data |-> <<>>]

\* Before OpenContainer: prev and staged remember the committed file found by
\* OpenContainer and the staged bytes Close starts from; wrote maps the
\* positions written through this Container (and not truncated away since) to
\* their bytes, kept counts the leading bytes of prev never truncated away,
\* opens counts the OpenContainer calls.
NoContainer ==
    [pc |-> "none", closed |-> FALSE, err |-> "none", prev |-> NoFile, staged |-> <<>>,
     wrote |-> <<>>, kept |-> 0, ret |-> NoCall, opens |-> 0]

ContainerIdle ==
    /\ finalFile = NoFile
    /\ tempFile = NoFile
    /\ cont = NoContainer
    /\ crashed = FALSE

\* The cleaner and the monitor on their own: no uploader, no container.
InitCleaner == CleanerInit /\ UploaderIdle /\ ContainerIdle /\ NoClients /\ NoDatabase
    /\ NoProvider /\ NoConfig

SpecCleaner == InitCleaner /\ [][CleanerNext]_vars

(***************************************************************************)
(* The cleaner on three files whose containers have the size the index     *)
(* records, as in the package's eviction tests                             *)
(***************************************************************************)
EvictionPaths == <<"a", "b", "c">>

\* The sizes 40, 30, 20 in the six orders.
EvictionSizes ==
    { sz \in [1..3 -> {20, 30, 40}] : \A i, j \in 1..3 : i # j => sz[i] # sz[j] }

\* max_cache_bytes 60 or unlimited, with and without a free-space floor, on
\* the probe New makes or on a disk of 120 bytes.
EvictionConfigs ==
    { [MaxCacheBytes |-> m, MinFreePercent |-> p,
       capacity |-> IF fake THEN 120 ELSE capacityFromConfig(m)] :
        m \in {0, 60}, p \in {0, 70}, fake \in BOOLEAN }

\* a was read first, c last; every file is on disk at its FileMeta.Size.
EvictionInit ==
    /\ \E sz \in EvictionSizes, dt \in [1..3 -> BOOLEAN] :
          /\ files = [p \in {"a", "b", "c"} |->
                        LET i == CHOOSE k \in 1..3 : EvictionPaths[k] = p
                        IN  FileMeta(p, sz[i], dt[i], i)]
          /\ disk = [p \in {"a", "b", "c"} |->
                        sz[CHOOSE k \in 1..3 : EvictionPaths[k] = p]]
    /\ ccfg \in EvictionConfigs
    /\ cctx = FALSE
    /\ pass = IdlePass
    /\ hcall = [h \in Handlers |-> IdleCall]
    /\ recovering = FALSE
    /\ writes = 0

InitEviction == EvictionInit /\ UploaderIdle /\ ContainerIdle /\ NoClients /\ NoDatabase
    /\ NoProvider /\ NoConfig

SpecEviction == InitEviction /\ [][CleanerNext]_vars

(***************************************************************************)
(* The uploads bucket and the Uploader                                     *)
(***************************************************************************)

\* MaxConcurrentUploads, journal length, MaxAttempts of the configurations explored.
UploaderShapes == {<<1, 1, 1>>, <<1, 2, 2>>, <<2, 1, 2>>, <<2, 2, 1>>}
WorkerIds == {1, 2}
UploadIds == {1, 2, 3}

\* applyDefaults, durations in milliseconds.
applyDefaults(cfg) ==
    LET c1 == IF cfg.workers <= 0 THEN [cfg EXCEPT !.workers = 2] ELSE cfg
        c2 == IF c1.MaxAttempts <= 0 THEN [c1 EXCEPT !.MaxAttempts = 3] ELSE c1
        c3 == IF c2.BaseRetryDelay <= 0 THEN [c2 EXCEPT !.BaseRetryDelay = 100] ELSE c2
        c4 == IF c3.MaxRetryDelay <= 0 THEN [c3 EXCEPT !.MaxRetryDelay = 5000] ELSE c3
    IN IF c4.MaxRetryDelay < c4.BaseRetryDelay
         THEN [c4 EXCEPT !.MaxRetryDelay = c4.BaseRetryDelay]
         ELSE c4

\* The Config New keeps: workers is MaxConcurrentUploads; records is the
\* journal's length; backend and failFirst say what Backend.Upload answers
\* ("flaky": retryable errors for the first failFirst calls of a record, then
\* success); recording says whether WithMetrics and WithSleeper installed
\* recorders in place of noopMetrics and realSleeper.
UploaderConfig(shape, backend, failFirst, base, max, recording) ==
    applyDefaults([workers |-> shape[1], records |-> shape[2], MaxAttempts |-> shape[3],
                   backend |-> backend, failFirst |-> failFirst,
                   BaseRetryDelay |-> base, MaxRetryDelay |-> max,
                   recording |-> recording])

\* One worker, one record, max_attempts 4, the backend failing one, two or three
\* times: the delays of TestUploaderRetriesWithBackoff, a smaller maximum, and
\* the defaults.
FlakyConfigs ==
    { UploaderConfig(<<1, 1, 4>>, "flaky", k, d[1], d[2], TRUE) :
         k \in 1..3, d \in {<<10, 80>>, <<10, 15>>, <<0, 0>>} }

UploadConfigs ==
    { UploaderConfig(c, b, 0, 10, 80, TRUE) : c \in UploaderShapes, b \in {"succeeds", "any"} }
       \cup FlakyConfigs

NoRecord ==
    [ID |-> 0, Path |-> "", Offset |-> 0, Length |-> 0, Status |-> "", Attempts |-> 0,
     LastError |-> ""]

\* The journal: records 1 and 2 are overlapping ranges of "x", record 3 is a range of "y".
UploadRecord(id, status, attempts) ==
    [ID |-> id, Path |-> IF id = 3 THEN "y" ELSE "x", Offset |-> IF id = 2 THEN 4 ELSE 0,
     Length |-> 8, Status |-> status, Attempts |-> attempts, LastError |-> ""]

\* The FileMetas the journal's records belong to: one dirty chunk per record.
JournalFiles(n) ==
    [p \in {UploadRecord(id, "queued", 0).Path : id \in 1..n} |->
        [Path |-> p, Size |-> 12,
         Chunks |-> IF p = "x" /\ n >= 2
                      THEN << [Offset |-> 0, Length |-> 8, Dirty |-> TRUE],
                              [Offset |-> 4, Length |-> 8, Dirty |-> TRUE] >>
                      ELSE << [Offset |-> 0, Length |-> 8, Dirty |-> TRUE] >>,
         AtimeLocal |-> 1]]

CleanerIdle ==
    /\ disk = <<>>
    /\ ccfg = [MaxCacheBytes |-> 0, MinFreePercent |-> 0, capacity |-> 0]
    /\ cctx = FALSE
    /\ pass = IdlePass
    /\ hcall = [h \in Handlers |-> IdleCall]
    /\ recovering = FALSE
    /\ writes = 0

\* The journal holds queued records; record 1 may have been left in_progress by
\* an earlier run.
UploaderInitFrom(configs) ==
    /\ ucfg \in configs
    /\ \E leftover \in BOOLEAN :
          uploads = [id \in 1..ucfg.records |->
                        IF id = 1 /\ leftover THEN UploadRecord(id, "in_progress", 1)
                        ELSE UploadRecord(id, "queued", 0)]
    /\ files = JournalFiles(ucfg.records)
    /\ uctx = FALSE
    /\ up = [running |-> FALSE, tasks |-> FALSE, queued |-> {}, inFlight |-> {}]
    /\ tasks = [buf |-> <<>>, closed |-> FALSE]
    /\ run = [pc |-> "init", list |-> <<>>, rec |-> NoRecord]
    /\ ticks = 0
    /\ wk = <<>>
    /\ calls = [id \in 1..ucfg.records |-> 0]
    /\ metrics = [id \in 1..ucfg.records |-> <<>>]
    /\ slept = [id \in 1..ucfg.records |-> <<>>]
    /\ paused = FALSE

\* The text of an error (err.Error(), "max attempts reached", "open chunk: ..."):
\* only whether LastError is empty is kept.
ErrorText == "error"

\* Index.UpdateUploadStatus (the timestamps are left out of the records)
UpdateUploadStatus(u, id, status, lastError) ==
    [u EXCEPT ![id].Status = status, ![id].Attempts = @ + 1, ![id].LastError = lastError]

\* The uploads bucket after a call of UpdateUploadStatus with the uploader's
\* context: a cancelled context makes the call return an error.
StatusWritten(id, status, lastError) ==
    IF uctx THEN uploads ELSE UpdateUploadStatus(uploads, id, status, lastError)

\* Metrics.RecordFailed, called when the status write returned no error
\* (noopMetrics keeps nothing).
RecordFailed(m, id, reason) ==
    IF ucfg.recording THEN [m EXCEPT ![id] = Append(@, reason)] ELSE m

\* Sleeper.Sleep (realSleeper keeps nothing).
Sleep(sl, id, delay) ==
    IF ucfg.recording THEN [sl EXCEPT ![id] = Append(@, delay)] ELSE sl
FailureRecorded(id, reason) == IF uctx THEN metrics ELSE RecordFailed(metrics, id, reason)

\* shouldProcess
shouldProcess(record) == record.Status \notin {"complete", "failed"}

\* enqueue's checks under the mutex, without the in-flight check.
EnqueueAdmitsQueuedOnly(u, id) == u.running /\ u.tasks /\ id \notin u.queued

\* enqueue's checks under the mutex.
EnqueueAdmits(u, id) == u.running /\ u.tasks /\ id \notin u.queued /\ id \notin u.inFlight

\* startProcessing: its result and the maps it leaves.
startProcessingOK(u, id) == id \in u.queued \/ id \notin u.inFlight
\* A startProcessing that leaves the id in queued.
startProcessingKeepsQueued(u, id) ==
    IF startProcessingOK(u, id) THEN [u EXCEPT !.inFlight = @ \cup {id}] ELSE u

startProcessing(u, id) ==
    IF startProcessingOK(u, id)
      THEN [u EXCEPT !.queued = @ \ {id}, !.inFlight = @ \cup {id}]
      ELSE u

\* finishProcessing
finishProcessing(u, id) == [u EXCEPT !.inFlight = @ \ {id}]

\* A panic in a goroutine ends the process.
Alive == \A w \in DOMAIN wk : wk[w].pc # "panic"

\* Run's workerCount.
workerCountPlusOne(cfg) == (IF cfg.workers <= 0 THEN 1 ELSE cfg.workers) + 1
workerCount(cfg) == IF cfg.workers <= 0 THEN 1 ELSE cfg.workers

\* The task channel's capacity.
TasksCap == 2 * workerCount(ucfg)

Received(w) == [wk EXCEPT ![w] = [pc |-> "recv", rec |-> NoRecord]]

\* Run up to the initial scan: the channel is made, running and tasks are set,
\* the workers are started.
RunStart ==
    /\ run.pc = "init"
    /\ ~up.running
    /\ up' = [up EXCEPT !.running = TRUE, !.tasks = TRUE]
    /\ tasks' = [buf |-> <<>>, closed |-> FALSE]
    /\ wk' = [w \in 1..workerCount(ucfg) |-> [pc |-> "recv", rec |-> NoRecord]]
    /\ run' = [run EXCEPT !.pc = "list"]
    /\ UNCHANGED <<files, uploads, ucfg, uctx, calls, ticks, metrics, slept>>
    /\ UNCHANGED NotUploader

\* scanAndQueue: ListUploads, the records in key order.
ScanList ==
    /\ Alive
    /\ run.pc = "list"
    /\ run' = IF uctx THEN [run EXCEPT !.pc = "wait"]
              ELSE [run EXCEPT !.pc = "iter",
                               !.list = [i \in 1..ucfg.records |-> uploads[i]]]
    /\ UNCHANGED <<files, uploads, ucfg, uctx, up, tasks, wk, calls, ticks, metrics, slept>>
    /\ UNCHANGED NotUploader

\* scanAndQueue: one record of the snapshot, through shouldProcess and the
\* part of enqueue that holds the mutex.
ScanNext ==
    /\ Alive
    /\ run.pc = "iter"
    /\ IF run.list = <<>>
         THEN /\ run' = [run EXCEPT !.pc = "wait"]
              /\ UNCHANGED up
         ELSE LET record == Head(run.list) IN
              IF shouldProcess(record) /\ EnqueueAdmits(up, record.ID)
                THEN /\ up' = [up EXCEPT !.queued = @ \cup {record.ID}]
                     /\ run' = [pc |-> "send", list |-> Tail(run.list), rec |-> record]
                ELSE /\ run' = [run EXCEPT !.list = Tail(run.list)]
                     /\ UNCHANGED up
    /\ UNCHANGED <<files, uploads, ucfg, uctx, tasks, wk, calls, ticks, metrics, slept>>
    /\ UNCHANGED NotUploader

\* enqueue's select, called by the scan.
ScanSend ==
    /\ Alive
    /\ run.pc = "send"
    /\ \/ /\ uctx
          /\ up' = [up EXCEPT !.queued = @ \ {run.rec.ID}]
          /\ UNCHANGED tasks
       \/ /\ Len(tasks.buf) < TasksCap
          /\ tasks' = [tasks EXCEPT !.buf = Append(@, run.rec)]
          /\ UNCHANGED up
    /\ run' = [run EXCEPT !.pc = "iter", !.rec = NoRecord]
    /\ UNCHANGED <<files, uploads, ucfg, uctx, wk, calls, ticks, metrics, slept>>
    /\ UNCHANGED NotUploader

\* Run's loop: the ticker fires.  (A tick chosen after the cancellation finds
\* ListUploads failing and changes nothing.)
Tick ==
    /\ Alive
    /\ run.pc = "wait"
    /\ ~uctx
    /\ ticks < MaxTicks
    /\ ticks' = ticks + 1
    /\ run' = [run EXCEPT !.pc = "list"]
    /\ UNCHANGED <<files, uploads, ucfg, uctx, up, tasks, wk, calls, metrics, slept>>
    /\ UNCHANGED NotUploader

\* Run's loop: ctx.Done; the deferred function closes the channel.
RunReturn ==
    /\ Alive
    /\ run.pc = "wait"
    /\ uctx
    /\ tasks' = [tasks EXCEPT !.closed = TRUE]
    /\ run' = [run EXCEPT !.pc = "join"]
    /\ UNCHANGED <<files, uploads, ucfg, uctx, up, wk, calls, ticks, metrics, slept>>
    /\ UNCHANGED NotUploader

\* The deferred function after wg.Wait.
RunJoin ==
    /\ Alive
    /\ run.pc = "join"
    /\ \A w \in DOMAIN wk : wk[w].pc = "exited"
    /\ up' = [running |-> FALSE, tasks |-> FALSE, queued |-> {}, inFlight |-> {}]
    /\ run' = [run EXCEPT !.pc = "stopped"]
    /\ UNCHANGED <<files, uploads, ucfg, uctx, tasks, wk, calls, ticks, metrics, slept>>
    /\ UNCHANGED NotUploader

\* worker's select.
WorkerReceive(w) ==
    /\ w \in DOMAIN wk
    /\ Alive
    /\ wk[w].pc = "recv"
    /\ \/ /\ uctx
          /\ wk' = [wk EXCEPT ![w].pc = "exited"]
          /\ UNCHANGED tasks
       \/ /\ tasks.buf # <<>>
          /\ wk' = [wk EXCEPT ![w] = [pc |-> "start", rec |-> Head(tasks.buf)]]
          /\ tasks' = [tasks EXCEPT !.buf = Tail(@)]
       \/ /\ tasks.buf = <<>>
          /\ tasks.closed
          /\ wk' = [wk EXCEPT ![w].pc = "exited"]
          /\ UNCHANGED tasks
    /\ UNCHANGED <<files, uploads, ucfg, uctx, up, run, calls, ticks, metrics, slept>>
    /\ UNCHANGED NotUploader

\* worker: startProcessing on the record received.
WorkerStart(w) ==
    /\ w \in DOMAIN wk
    /\ Alive
    /\ wk[w].pc = "start"
    /\ up' = startProcessing(up, wk[w].rec.ID)
    /\ wk' = IF startProcessingOK(up, wk[w].rec.ID)
               THEN [wk EXCEPT ![w].pc = "process"]
               ELSE Received(w)
    /\ UNCHANGED <<files, uploads, ucfg, uctx, tasks, run, ticks, calls, metrics, slept>>
    /\ UNCHANGED NotUploader

\* ChunkProvider.OpenChunk succeeds or not; in the retry scenario it succeeds.
Opens == IF ucfg.backend = "flaky" THEN {TRUE} ELSE BOOLEAN

\* processRecord up to the call of Backend.Upload.  When OpenChunk fails, the
\* context may have been cancelled by the time the failed status is written
\* (OpenChunk itself fails on a cancelled context).
ProcessRecord(w) ==
    /\ w \in DOMAIN wk
    /\ Alive
    /\ wk[w].pc = "process"
    /\ LET record == wk[w].rec
           id == record.ID
           attemptsBefore == record.Attempts \div 2
       IN IF attemptsBefore >= ucfg.MaxAttempts
            THEN /\ uploads' = StatusWritten(id, "failed", ErrorText)
                 /\ metrics' = FailureRecorded(id, "max_attempts")
                 /\ up' = finishProcessing(up, id)
                 /\ wk' = Received(w)
                 /\ UNCHANGED <<calls, uctx>>
          ELSE IF uctx
            THEN /\ up' = finishProcessing(up, id)
                 /\ wk' = Received(w)
                 /\ UNCHANGED <<uploads, calls, metrics, uctx>>
          ELSE \E opened \in Opens :
                 IF opened
                   THEN /\ uploads' = UpdateUploadStatus(uploads, id, "in_progress", "")
                        /\ wk' = [wk EXCEPT ![w].pc = "upload"]
                        /\ calls' = [calls EXCEPT ![id] = @ + 1]
                        /\ UNCHANGED <<up, metrics, uctx>>
                   ELSE \E cancelled \in BOOLEAN :
                        /\ uctx' = cancelled
                        /\ uploads' = IF cancelled
                                        THEN UpdateUploadStatus(uploads, id, "in_progress", "")
                                        ELSE UpdateUploadStatus(
                                                UpdateUploadStatus(uploads, id, "in_progress", ""),
                                                id, "failed", ErrorText)
                        /\ metrics' = IF cancelled THEN metrics
                                                   ELSE RecordFailed(metrics, id, "open_chunk")
                        /\ up' = finishProcessing(up, id)
                        /\ wk' = Received(w)
                        /\ UNCHANGED calls
    /\ UNCHANGED <<files, ucfg, tasks, run, ticks, slept>>
    /\ UNCHANGED NotUploader

\* What Backend.Upload may answer for a record.
Outcomes(id) ==
    (IF ucfg.backend = "succeeds" THEN {"ok"}
     ELSE IF ucfg.backend = "flaky"
       THEN (IF calls[id] <= ucfg.failFirst THEN {"retryable"} ELSE {"ok"})
     ELSE {"ok", "retryable", "permanent", "etag"})
       \cup (IF uctx THEN {"ctx"} ELSE {})

\* time.Duration(float64(base) * math.Pow(2, shift)): the product when the
\* integer type holds it; otherwise the conversion's result depends on the
\* platform (the largest or the smallest integer).
DurationOfProduct(base, shift) ==
    IF shift <= 30 /\ 2^shift <= MaxInt64 \div base
      THEN {base * 2^shift}
      ELSE {MaxInt64, -MaxInt64}

\* backoffDelay: the delays it may return for an attempt, in milliseconds.
backoffDelay(cfg, attempt0) ==
    LET attempt == IF attempt0 < 1 THEN 1 ELSE attempt0
        base == IF cfg.BaseRetryDelay <= 0 THEN 100 ELSE cfg.BaseRetryDelay
    IN { IF delay > cfg.MaxRetryDelay THEN cfg.MaxRetryDelay
         ELSE IF delay < base THEN base
         ELSE delay : delay \in DurationOfProduct(base, attempt - 1) }

\* Backend.Upload returns out; processRecord up to its return or to Sleep.
UploadReturnsWith(w, out) ==
    /\ w \in DOMAIN wk
    /\ Alive
    /\ wk[w].pc = "upload"
    /\ out \in Outcomes(wk[w].rec.ID)
    /\ LET record == wk[w].rec
           id == record.ID
           currentAttempt == (record.Attempts \div 2) + 1
       IN /\ up' = finishProcessing(up, id)
          /\ IF out = "ok"
               THEN /\ uploads' = StatusWritten(id, "complete", "")
                    /\ wk' = Received(w)
                    /\ UNCHANGED <<metrics, slept>>
             ELSE IF out = "etag"
               THEN /\ uploads' = StatusWritten(id, "failed", ErrorText)
                    /\ metrics' = FailureRecorded(id, "etag_mismatch")
                    /\ wk' = Received(w)
                    /\ UNCHANGED slept
             ELSE IF out = "ctx"
               THEN /\ uploads' = StatusWritten(id, "queued", ErrorText)
                    /\ wk' = Received(w)
                    /\ UNCHANGED <<metrics, slept>>
             ELSE IF out = "retryable" /\ currentAttempt < ucfg.MaxAttempts
               THEN \E delay \in backoffDelay(ucfg, currentAttempt) :
                       /\ uploads' = StatusWritten(id, "queued", ErrorText)
                       /\ IF uctx
                            THEN /\ wk' = Received(w)
                                 /\ UNCHANGED slept
                            ELSE /\ wk' = [wk EXCEPT ![w] = [pc |-> "sleep", rec |-> uploads'[id]]]
                                 /\ slept' = Sleep(slept, id, delay)
                       /\ UNCHANGED metrics
             ELSE /\ uploads' = StatusWritten(id, "failed", ErrorText)
                  /\ metrics' = FailureRecorded(id, "backend_error")
                  /\ wk' = Received(w)
                  /\ UNCHANGED slept
    /\ UNCHANGED <<files, ucfg, uctx, tasks, run, calls, ticks>>
    /\ UNCHANGED NotUploader

UploadReturns(w) ==
    \E out \in {"ok", "retryable", "permanent", "etag", "ctx"} : UploadReturnsWith(w, out)

\* Sleep returns; the part of enqueue that holds the mutex.
SleepDone(w) ==
    /\ w \in DOMAIN wk
    /\ Alive
    /\ wk[w].pc = "sleep"
    /\ IF EnqueueAdmits(up, wk[w].rec.ID)
         THEN /\ up' = [up EXCEPT !.queued = @ \cup {wk[w].rec.ID}]
              /\ wk' = [wk EXCEPT ![w].pc = "send"]
         ELSE /\ wk' = Received(w)
              /\ UNCHANGED up
    /\ UNCHANGED <<files, uploads, ucfg, uctx, tasks, run, calls, ticks, metrics, slept>>
    /\ UNCHANGED NotUploader

\* enqueue's select, called by a worker that retries.
WorkerSend(w) ==
    /\ w \in DOMAIN wk
    /\ Alive
    /\ wk[w].pc = "send"
    /\ \/ /\ uctx
          /\ up' = [up EXCEPT !.queued = @ \ {wk[w].rec.ID}]
          /\ wk' = Received(w)
          /\ UNCHANGED tasks
       \/ /\ ~tasks.closed
          /\ Len(tasks.buf) < TasksCap
          /\ tasks' = [tasks EXCEPT !.buf = Append(@, wk[w].rec)]
          /\ wk' = Received(w)
          /\ UNCHANGED up
       \/ /\ tasks.closed
          /\ wk' = [wk EXCEPT ![w].pc = "panic"]
          /\ UNCHANGED <<up, tasks>>
    /\ UNCHANGED <<files, uploads, ucfg, uctx, run, calls, ticks, metrics, slept>>
    /\ UNCHANGED NotUploader

CancelUploaderCtx ==
    /\ Alive
    /\ ~uctx
    /\ run.pc \notin {"init", "stopped"}
    /\ uctx' = TRUE
    /\ UNCHANGED <<files, uploads, ucfg, up, tasks, run, ticks, wk, calls, metrics, slept>>
    /\ UNCHANGED NotUploader

UploaderNext ==
    \/ RunStart
    \/ ScanList
    \/ ScanNext
    \/ ScanSend
    \/ Tick
    \/ RunReturn
    \/ RunJoin
    \/ CancelUploaderCtx
    \/ \E w \in WorkerIds : WorkerReceive(w)
    \/ \E w \in WorkerIds : WorkerStart(w)
    \/ \E w \in WorkerIds : ProcessRecord(w)
    \/ \E w \in WorkerIds : UploadReturns(w)
    \/ \E w \in WorkerIds : SleepDone(w)
    \/ \E w \in WorkerIds : WorkerSend(w)

\* The uploader on its own: no cleaner pass, no container.
InitUploader == UploaderInitFrom(UploadConfigs) /\ CleanerIdle /\ ContainerIdle /\ NoClients /\ NoDatabase
    /\ NoProvider /\ NoConfig

SpecUploader == InitUploader /\ [][UploaderNext]_vars

\* One worker, a channel of two, three pending records, one retry allowed.
FairConfigs ==
    { UploaderConfig(<<1, 3, 2>>, b, 0, 10, 80, FALSE) : b \in {"succeeds", "any"} }

InitFairUploader ==
    UploaderInitFrom(FairConfigs) /\ CleanerIdle /\ ContainerIdle /\ NoClients /\ NoDatabase
    /\ NoProvider /\ NoConfig

\* The Go scheduler runs every goroutine that can take a step, the ticker
\* fires, Sleep and Backend.Upload return.  Nothing obliges the host to
\* cancel the context.
UploaderFairness ==
    /\ WF_vars(RunStart)
    /\ WF_vars(ScanList)
    /\ WF_vars(ScanNext)
    /\ WF_vars(ScanSend)
    /\ WF_vars(Tick)
    /\ WF_vars(RunReturn)
    /\ WF_vars(RunJoin)
    /\ WF_vars(\E w \in WorkerIds : WorkerReceive(w))
    /\ WF_vars(\E w \in WorkerIds : WorkerStart(w))
    /\ WF_vars(\E w \in WorkerIds : ProcessRecord(w))
    /\ WF_vars(\E w \in WorkerIds : UploadReturns(w))
    /\ WF_vars(\E w \in WorkerIds : SleepDone(w))
    /\ WF_vars(\E w \in WorkerIds : WorkerSend(w))

FairSpecUploader == InitFairUploader /\ [][UploaderNext]_vars /\ UploaderFairness

(***************************************************************************)
(* The uploader under an UploaderController, as the design document        *)
(* describes it: pause stops workers from starting new records, records in *)
(* flight run on, resume re-arms the scan loop                             *)
(***************************************************************************)

\* A pause that stops nothing.
PauseStopsNothing(p) == FALSE

\* Whether the paused uploader holds back a worker about to start a record
\* and the scan loop about to scan.
PauseStops(p) == p

\* PauseUploads returning success.
PauseUploads ==
    /\ Alive
    /\ run.pc \notin {"init", "stopped"}
    /\ ~paused
    /\ paused' = TRUE
    /\ UNCHANGED <<cleanerVars, uploaderVars, containerVars, clientVars, dbVars, providerVars,
                   configVars>>

\* ResumeUploads returning success.
ResumeUploads ==
    /\ Alive
    /\ paused
    /\ paused' = FALSE
    /\ UNCHANGED <<cleanerVars, uploaderVars, containerVars, clientVars, dbVars, providerVars,
                   configVars>>

\* worker: startProcessing, held back while the uploader is paused.
PausableWorkerStart(w) == ~PauseStops(paused) /\ WorkerStart(w)

\* Run's ticker, disarmed while the uploader is paused.
PausableTick == ~PauseStops(paused) /\ Tick

PausableNext ==
    \/ RunStart
    \/ ScanList
    \/ ScanNext
    \/ ScanSend
    \/ PausableTick
    \/ RunReturn
    \/ RunJoin
    \/ CancelUploaderCtx
    \/ PauseUploads
    \/ ResumeUploads
    \/ \E w \in WorkerIds : WorkerReceive(w)
    \/ \E w \in WorkerIds : PausableWorkerStart(w)
    \/ \E w \in WorkerIds : ProcessRecord(w)
    \/ \E w \in WorkerIds : UploadReturns(w)
    \/ \E w \in WorkerIds : SleepDone(w)
    \/ \E w \in WorkerIds : WorkerSend(w)

\* Two records; one worker that may retry, or two workers.
PauseConfigs ==
    { UploaderConfig(c, "any", 0, 10, 80, FALSE) : c \in {<<1, 2, 2>>, <<2, 2, 1>>} }

InitPausable == UploaderInitFrom(PauseConfigs) /\ CleanerIdle /\ ContainerIdle /\ NoClients /\ NoDatabase
    /\ NoProvider /\ NoConfig

SpecPausable == InitPausable /\ [][PausableNext]_vars

(***************************************************************************)
(* Container: OpenContainer, WriteAt, Truncate, Close                      *)
(***************************************************************************)

\* Byte values written; 0 is what a hole or an extension reads as.
DataBytes == {1, 2}

\* Byte strings of at most n bytes, written whole.
DataStrings(n) == UNION { [1..k -> DataBytes] : k \in 0..n }

Max(a, b) == IF a > b THEN a ELSE b

\* os.File.WriteAt(p, off) on a file holding b.
WriteBytes(b, p, off) ==
    [i \in 1..Max(Len(b), off + Len(p)) |->
        IF i > off /\ i <= off + Len(p) THEN p[i - off]
        ELSE IF i <= Len(b) THEN b[i] ELSE 0]

\* os.File.Truncate(size) on a file holding b.
TruncateBytes(b, size) == [i \in 1..size |-> IF i <= Len(b) THEN b[i] ELSE 0]

ContainerInit ==
    /\ \E committed \in BOOLEAN, k \in 0..MaxFileLen :
          finalFile = IF committed THEN [exists |-> TRUE, bytes |-> [i \in 1..k |-> 1]]
                                   ELSE NoFile
    /\ tempFile = NoFile
    /\ cont = NoContainer
    /\ crashed = FALSE

\* The byte slices handed to WriteAt, and the lengths of those handed to
\* ReadAt.
WritePayloads == {<<1>>, <<2>>, <<2, 1>>}

ReadLengths == {2}

\* A staging file that starts empty whatever the committed path holds.
copyNothing(final) == <<>>

\* copyExisting: the bytes of the committed file, none when there is no file.
copyExisting(final) == IF final.exists THEN final.bytes ELSE <<>>

\* OpenContainer: CreateTemp and copyExisting; a failure of either leaves no
\* staging file and no Container.  A path is opened again once the Container
\* before has been closed.
OpenContainer ==
    /\ ~crashed
    /\ cont.pc \in {"none", "returned"}
    /\ cont.opens < MaxOpens
    /\ \E ok \in BOOLEAN :
          LET new == [NoContainer EXCEPT
                         !.prev = finalFile,
                         !.kept = Len(copyExisting(finalFile)),
                         !.opens = cont.opens + 1]
          IN  IF ok
                THEN /\ tempFile' = [exists |-> TRUE, bytes |-> copyExisting(finalFile)]
                     /\ cont' = [new EXCEPT !.pc = "open"]
                ELSE /\ cont' = [new EXCEPT !.pc = "failed"]
                     /\ UNCHANGED tempFile
    /\ UNCHANGED <<finalFile, crashed>>
    /\ UNCHANGED NotContainer

\* A Container whose methods never find it closed.
IsClosedNever(c) == FALSE

\* c.closed, tested first by every method.
IsClosed(c) == c.closed

\* What a method returns.
Called(c, op, err, data) == [c EXCEPT !.ret = [op |-> op, err |-> err, data |-> data]]

\* Container.WriteAt.
WriteAt ==
    /\ ~crashed
    /\ cont.pc \in {"open", "returned"}
    /\ \E p \in WritePayloads, off \in 0..MaxFileLen :
          /\ off + Len(p) <= MaxFileLen
          /\ IF IsClosed(cont)
               THEN /\ cont' = Called(cont, "WriteAt", "ErrClosed", <<>>)
                    /\ UNCHANGED tempFile
               ELSE /\ tempFile' = [tempFile EXCEPT !.bytes = WriteBytes(@, p, off)]
                    /\ cont' = [Called(cont, "WriteAt", "nil", <<>>) EXCEPT
                                  !.wrote = [i \in DOMAIN @ \cup ((off + 1)..(off + Len(p))) |->
                                               IF i > off /\ i <= off + Len(p)
                                                 THEN p[i - off] ELSE @[i]]]
    /\ UNCHANGED <<finalFile, crashed>>
    /\ UNCHANGED NotContainer

\* os.File.ReadAt(p, off) with len(p) = n on a file holding b: the bytes
\* there are, and io.EOF when they are fewer than n.
ReadAtBytes(b, n, off) ==
    LET last == Min(Len(b), off + n)
        data == IF off >= Len(b) THEN <<>> ELSE SubSeq(b, off + 1, last)
    IN  [data |-> data, err |-> IF Len(data) < n THEN "EOF" ELSE "nil"]

\* Container.ReadAt.
ReadAt ==
    /\ ~crashed
    /\ cont.pc \in {"open", "returned"}
    /\ \E n \in ReadLengths, off \in 0..MaxFileLen :
          IF IsClosed(cont)
            THEN cont' = Called(cont, "ReadAt", "ErrClosed", <<>>)
            ELSE LET r == ReadAtBytes(tempFile.bytes, n, off)
                 IN  cont' = Called(cont, "ReadAt", r.err, r.data)
    /\ UNCHANGED <<finalFile, tempFile, crashed>>
    /\ UNCHANGED NotContainer

\* Container.Truncate.
Truncate ==
    /\ ~crashed
    /\ cont.pc \in {"open", "returned"}
    /\ \E size \in 0..MaxFileLen :
          IF IsClosed(cont)
            THEN /\ cont' = Called(cont, "Truncate", "ErrClosed", <<>>)
                 /\ UNCHANGED tempFile
            ELSE /\ tempFile' = [tempFile EXCEPT !.bytes = TruncateBytes(@, size)]
                 /\ cont' = [Called(cont, "Truncate", "nil", <<>>) EXCEPT
                               !.wrote = [i \in {k \in DOMAIN @ : k <= size} |-> @[i]],
                               !.kept = Min(@, size)]
    /\ UNCHANGED <<finalFile, crashed>>
    /\ UNCHANGED NotContainer

\* Container.Fsync.
Fsync ==
    /\ ~crashed
    /\ cont.pc \in {"open", "returned"}
    /\ IF IsClosed(cont)
         THEN cont' = Called(cont, "Fsync", "ErrClosed", <<>>)
         ELSE \E ok \in BOOLEAN :
                 cont' = Called(cont, "Fsync", IF ok THEN "nil" ELSE "sync", <<>>)
    /\ UNCHANGED <<finalFile, tempFile, crashed>>
    /\ UNCHANGED NotContainer

\* Close returns err: closed is set.
Closed(c, err) == [c EXCEPT !.pc = "returned", !.closed = TRUE, !.err = err]

\* Close: nil at once on a closed Container; otherwise file.Sync, and on its
\* failure the staging file is closed and removed.
CloseSync ==
    /\ ~crashed
    /\ cont.pc \in {"open", "returned"}
    /\ IF IsClosed(cont)
         THEN /\ cont' = Called(cont, "Close", "nil", <<>>)
              /\ UNCHANGED tempFile
         ELSE \E ok \in BOOLEAN :
                 IF ok
                   THEN /\ cont' = [cont EXCEPT !.pc = "synced", !.staged = tempFile.bytes]
                        /\ UNCHANGED tempFile
                   ELSE /\ cont' = Closed([cont EXCEPT !.staged = tempFile.bytes], "sync")
                        /\ tempFile' = NoFile
    /\ UNCHANGED <<finalFile, crashed>>
    /\ UNCHANGED NotContainer

\* Close: file.Close; on failure the staging file is removed.
CloseFile ==
    /\ ~crashed
    /\ cont.pc = "synced"
    /\ \E ok \in BOOLEAN :
          IF ok
            THEN /\ cont' = [cont EXCEPT !.pc = "replace"]
                 /\ UNCHANGED tempFile
            ELSE /\ cont' = Closed(cont, "close")
                 /\ tempFile' = NoFile
    /\ UNCHANGED <<finalFile, crashed>>
    /\ UNCHANGED NotContainer

\* replaceFile: os.Remove(finalPath); a missing file is not an error.
ReplaceRemove ==
    /\ ~crashed
    /\ cont.pc = "replace"
    /\ \E ok \in BOOLEAN :
          IF ok \/ ~finalFile.exists
            THEN /\ finalFile' = NoFile
                 /\ cont' = [cont EXCEPT !.pc = "rename"]
            ELSE /\ cont' = Closed(cont, "remove")
                 /\ UNCHANGED finalFile
    /\ UNCHANGED <<tempFile, crashed>>
    /\ UNCHANGED NotContainer

\* replaceFile: os.Rename(tempPath, finalPath), then Close returns.
ReplaceRename ==
    /\ ~crashed
    /\ cont.pc = "rename"
    /\ \E ok \in BOOLEAN :
          IF ok
            THEN /\ finalFile' = tempFile
                 /\ tempFile' = NoFile
                 /\ cont' = Closed(cont, "nil")
            ELSE /\ cont' = Closed(cont, "rename")
                 /\ UNCHANGED <<finalFile, tempFile>>
    /\ UNCHANGED crashed
    /\ UNCHANGED NotContainer

\* The process dies; the files stay as they are.
Crash ==
    /\ ~crashed
    /\ cont.pc \notin {"none", "failed", "returned"}
    /\ crashed' = TRUE
    /\ cont' = [cont EXCEPT !.wrote = <<>>, !.kept = 0, !.ret = NoCall]
    /\ UNCHANGED <<finalFile, tempFile>>
    /\ UNCHANGED NotContainer

ContainerNext ==
    \/ OpenContainer
    \/ WriteAt
    \/ ReadAt
    \/ Truncate
    \/ Fsync
    \/ CloseSync
    \/ CloseFile
    \/ ReplaceRemove
    \/ ReplaceRename
    \/ Crash

\* One container on its own: an empty index, no cleaner, no uploader.
InitContainer ==
    /\ ContainerInit
    /\ files = <<>>
    /\ CleanerIdle
    /\ UploaderIdle
    /\ NoClients
    /\ NoDatabase
    /\ NoProvider
    /\ NoConfig

SpecContainer == InitContainer /\ [][ContainerNext]_vars

(***************************************************************************)
(* Index.Update and Index.Get of the bbolt index, called concurrently      *)
(***************************************************************************)
Clients == {"c1", "c2"}

\* The calls made: Update with a function that marks the chunks dirty, Update
\* with a function that grows Size by 512, and Get.
IndexOps == {"update_dirty", "update_grow", "get"}

NoMeta == [Path |-> "", Size |-> 0, Chunks |-> <<>>, AtimeLocal |-> 0]

IdleClient ==
    [pc |-> "idle", op |-> "none", path |-> "", current |-> NoMeta, pending |-> NoMeta,
     err |-> "none", calls |-> 0]

\* One FileMeta in the bucket, clean or dirty, and two callers.
IndexInit ==
    /\ \E sz \in FileSizes, dt \in BOOLEAN :
          files = [p \in {"a"} |-> FileMeta(p, sz, dt, 1)]
    /\ dbLock = "none"
    /\ cl = [c \in Clients |-> IdleClient]
    /\ clock = 1

\* db.Update starting its transaction although another one is open.
BeginsAnyway(lock) == TRUE

\* db.Update: a read-write transaction starts when no other one is open.
Begins(lock) == lock = "none"

\* The function the caller hands to Update.
Fn(op, meta) ==
    IF op = "update_dirty" THEN MarkDirty(meta)
    ELSE IF op = "update_rename" THEN [MarkDirty(meta) EXCEPT !.Path = "elsewhere"]
    ELSE [meta EXCEPT !.Size = @ + 512]

\* normalizeFileMeta (a zero AtimeLocal becomes the current time).
normalizeFileMeta(meta, now) ==
    IF meta.AtimeLocal = 0 THEN [meta EXCEPT !.AtimeLocal = now] ELSE meta

\* What the transaction of a call puts for the FileMeta it read.
\* An Update that stores what the function returned, its Path included.
PutForKeepsPath(op, path, current, now) ==
    IF op = "get" THEN [current EXCEPT !.AtimeLocal = now]
    ELSE normalizeFileMeta(Fn(op, current), now)

PutFor(op, path, current, now) ==
    IF op = "get" THEN [current EXCEPT !.AtimeLocal = now]
    ELSE normalizeFileMeta([Fn(op, current) EXCEPT !.Path = path], now)

\* A caller calls Update(path, fn) or Get(path) with a live context.
IndexCall(c, op, path) ==
    /\ cl[c].pc = "idle"
    /\ cl[c].calls < MaxCalls
    /\ cl' = [cl EXCEPT ![c] = [IdleClient EXCEPT !.pc = "begin", !.op = op, !.path = path,
                                                  !.calls = cl[c].calls]]
    /\ UNCHANGED <<files, dbLock, clock>>
    /\ UNCHANGED NotClients

\* db.Update begins the transaction.
TxBegin(c) ==
    /\ cl[c].pc = "begin"
    /\ Begins(dbLock)
    /\ dbLock' = c
    /\ cl' = [cl EXCEPT ![c].pc = "read"]
    /\ UNCHANGED <<files, clock>>
    /\ UNCHANGED NotClients

\* bucket.Get and decodeFileMeta; a missing key ends the transaction with
\* ErrNotFound.
TxRead(c) ==
    /\ cl[c].pc = "read"
    /\ IF cl[c].path \in DOMAIN files
         THEN /\ cl' = [cl EXCEPT ![c].pc = "put", ![c].current = files[cl[c].path]]
              /\ UNCHANGED dbLock
         ELSE /\ cl' = [cl EXCEPT ![c].pc = "done", ![c].err = "ErrNotFound"]
              /\ dbLock' = IF dbLock = c THEN "none" ELSE dbLock
    /\ UNCHANGED <<files, clock>>
    /\ UNCHANGED NotClients

\* fn (or the new AtimeLocal of Get), normalizeFileMeta, encodeFileMeta and
\* bucket.Put inside the transaction.
TxPut(c) ==
    /\ cl[c].pc = "put"
    /\ clock' = clock + 1
    /\ cl' = [cl EXCEPT ![c].pc = "commit",
                         ![c].pending = PutFor(cl[c].op, cl[c].path, cl[c].current, clock')]
    /\ UNCHANGED <<files, dbLock>>
    /\ UNCHANGED NotClients

\* The transaction commits: the bucket holds what was put, the writer lock
\* is released, the call returns the FileMeta.
TxCommit(c) ==
    /\ cl[c].pc = "commit"
    /\ files' = [files EXCEPT ![cl[c].path] = cl[c].pending]
    /\ dbLock' = IF dbLock = c THEN "none" ELSE dbLock
    /\ cl' = [cl EXCEPT ![c].pc = "done", ![c].err = "nil"]
    /\ UNCHANGED clock
    /\ UNCHANGED NotClients

\* The caller has the result and may call again.
CallReturns(c) ==
    /\ cl[c].pc = "done"
    /\ cl' = [cl EXCEPT ![c].pc = "idle", ![c].calls = @ + 1]
    /\ UNCHANGED <<files, dbLock, clock>>
    /\ UNCHANGED NotClients

ClientsNext ==
    \/ \E c \in Clients, op \in IndexOps : IndexCall(c, op, "a")
    \/ \E c \in Clients : TxBegin(c)
    \/ \E c \in Clients : TxRead(c)
    \/ \E c \in Clients : TxPut(c)
    \/ \E c \in Clients : TxCommit(c)
    \/ \E c \in Clients : CallReturns(c)

\* The index and its callers on their own.
InitClients ==
    /\ IndexInit
    /\ CleanerIdle
    /\ UploaderIdle
    /\ ContainerIdle
    /\ NoDatabase
    /\ NoProvider
    /\ NoConfig

SpecClients == InitClients /\ [][ClientsNext]_vars

(***************************************************************************)
(* The bbolt index: Open, the CacheIndex calls, Close                      *)
(***************************************************************************)

\* const currentSchemaVersion.
currentSchemaVersion == 1

\* The readings of the wall clock explored.
WallReadings == {1, 2}

\* AddUpload calls that draw an id from upload_seq.
MaxUploadSeq == 2

\* UpdateUploadStatus calls explored per record.
MaxStoredAttempts == 2

\* strconv.Itoa: the decimal digits of n, as ASCII bytes.
RECURSIVE Itoa(_)
Itoa(n) ==
    IF n < 0 THEN <<45>> \o Itoa(0 - n)
    ELSE IF n < 10 THEN <<48 + n>>
    ELSE Itoa(n \div 10) \o <<48 + (n % 10)>>

\* strconv.Atoi of a string of decimal digits with an optional sign.
RECURSIVE AtoiDigits(_)
AtoiDigits(s) ==
    IF s = <<>> THEN 0
    ELSE 10 * AtoiDigits(SubSeq(s, 1, Len(s) - 1)) + (s[Len(s)] - 48)

Atoi(s) == IF Head(s) = 45 THEN 0 - AtoiDigits(Tail(s)) ELSE AtoiDigits(s)

\* fmt's %020d of a non-negative number: zeros in front up to 20 digits.
RECURSIVE ZeroPad(_, _)
ZeroPad(digits, width) ==
    IF Len(digits) >= width THEN digits ELSE ZeroPad(<<48>> \o digits, width)

\* formatUploadID: "upl-" and the sequence number in 20 digits.
formatUploadID(seq) == <<117, 112, 108, 45>> \o ZeroPad(Itoa(seq), 20)

\* bytes.Compare(a, b) < 0, the order of the keys of a bucket.
RECURSIVE BytesLess(_, _)
BytesLess(a, b) ==
    IF b = <<>> THEN FALSE
    ELSE IF a = <<>> THEN TRUE
    ELSE IF Head(a) # Head(b) THEN Head(a) < Head(b)
    ELSE BytesLess(Tail(a), Tail(b))

\* The keys of a bucket in the order a Cursor walks them.
RECURSIVE CursorOrder(_)
CursorOrder(keys) ==
    IF keys = {} THEN <<>>
    ELSE LET first == CHOOSE k \in keys : \A o \in keys \ {k} : BytesLess(k, o)
         IN  <<first>> \o CursorOrder(keys \ {first})

\* time.Time marshalled with a layout that has no fraction of a second (two
\* units of the model's clock make a second).
MarshalTimeSeconds(t) == [RFC3339Nano |-> 2 * (t \div 2)]

\* time.Time.MarshalJSON / UnmarshalJSON: the instant in RFC 3339 with
\* nanoseconds.
MarshalTime(t) == [RFC3339Nano |-> t]
UnmarshalTime(j) == j.RFC3339Nano

\* encodeFileMeta / decodeFileMeta: json.Marshal and json.Unmarshal.
encodeFileMeta(meta) ==
    [Path |-> meta.Path, Size |-> meta.Size, Chunks |-> meta.Chunks,
     AtimeLocal |-> MarshalTime(meta.AtimeLocal)]

decodeFileMeta(data) ==
    [Path |-> data.Path, Size |-> data.Size, Chunks |-> data.Chunks,
     AtimeLocal |-> UnmarshalTime(data.AtimeLocal)]

\* encodeUpload / decodeUpload.
encodeUpload(entry) ==
    [entry EXCEPT !.CreatedAt = MarshalTime(@), !.UpdatedAt = MarshalTime(@)]

decodeUpload(data) ==
    [data EXCEPT !.CreatedAt = UnmarshalTime(@), !.UpdatedAt = UnmarshalTime(@)]

\* The FileMetas and the UploadRecords a database stores, decoded.
StoredMetas(d) == [p \in DOMAIN d.files |-> decodeFileMeta(d.files[p])]
StoredUploads(d) == [k \in DOMAIN d.uploads |-> decodeUpload(d.uploads[k])]

\* The index.UploadRecord a caller hands to AddUpload: blank timestamps unless
\* it sets CreatedAt, status queued.
UploadEntry(id, createdAt) ==
    [ID |-> id, Path |-> "a", Offset |-> 0, Length |-> 30, Status |-> "queued",
     Attempts |-> 0, LastError |-> "", CreatedAt |-> createdAt, UpdatedAt |-> 0]

\* ctx.Err() never reporting the cancellation.
ctxErrNever(cancelled) == "nil"

\* ctx.Err() at the head of every call.
ctxErr(cancelled) == IF cancelled THEN "context canceled" ELSE "nil"

\* The files the index can be opened on: a path with no database, a legacy
\* database (version 0, no uploads bucket, possibly a FileMeta), a database
\* this version wrote, and one written by a later version.
InitialDatabases ==
    {EmptyDatabase}
    \cup { [buckets |-> {"stats", "files"}, schema_version |-> Itoa(0), upload_seq |-> <<>>,
            files |-> f, uploads |-> <<>>] :
             f \in {<<>>, [p \in {"a"} |-> encodeFileMeta(FileMeta(p, 30, FALSE, 1))]} }
    \cup { [buckets |-> {"stats", "files", "uploads"}, schema_version |-> Itoa(v),
            upload_seq |-> <<>>,
            files |-> [p \in {"a"} |-> encodeFileMeta(FileMeta(p, 30, FALSE, 1))],
            uploads |-> <<>>] : v \in {currentSchemaVersion, currentSchemaVersion + 1} }

DatabaseInit ==
    /\ db \in InitialDatabases
    /\ ix = [open |-> FALSE, ret |-> NoReturn]
    /\ wall = 1

\* migrate(tx, from, to): version 0 lacks buckets; any other version below
\* the current one is unknown.
migrate(d, from) ==
    IF from >= currentSchemaVersion THEN [db |-> d, err |-> "nil"]
    ELSE IF from = 0
      THEN [db |-> [d EXCEPT !.buckets = @ \cup {"files", "uploads"}], err |-> "nil"]
      ELSE [db |-> d, err |-> "errUnknownSchema"]

\* ensureSchema accepting a database of any version.
ensureSchemaAnyVersion(d) ==
    [db |-> [d EXCEPT !.buckets = {"files", "uploads", "stats"}], err |-> "nil"]

\* ensureSchema: one read-write transaction; an error rolls it back.
ensureSchema(d) ==
    LET made == [d EXCEPT !.buckets = {"files", "uploads", "stats"}]
        current == Itoa(currentSchemaVersion)
    IN  IF Len(d.schema_version) = 0
          THEN [db |-> [made EXCEPT !.schema_version = current], err |-> "nil"]
        ELSE IF Atoi(d.schema_version) = currentSchemaVersion
          THEN [db |-> made, err |-> "nil"]
        ELSE IF Atoi(d.schema_version) > currentSchemaVersion
          THEN [db |-> d, err |-> "errUnknownSchema"]
        ELSE LET m == migrate(made, Atoi(d.schema_version))
             IN  IF m.err # "nil" THEN [db |-> d, err |-> m.err]
                 ELSE [db |-> [m.db EXCEPT !.schema_version = current], err |-> "nil"]

\* What a call returns.
Returns(op, err, val) == [ix EXCEPT !.ret = [op |-> op, err |-> err, val |-> val]]

\* Open: bolt.Open and ensureSchema; on an error the handle is closed again.
Open ==
    /\ ~ix.open
    /\ LET s == ensureSchema(db)
       IN  /\ db' = s.db
           /\ ix' = [open |-> s.err = "nil", ret |-> [op |-> "Open", err |-> s.err, val |-> <<>>]]
    /\ UNCHANGED wall
    /\ UNCHANGED NotIndex

\* Index.Close.
Close ==
    /\ ix.open
    /\ ix' = [open |-> FALSE, ret |-> [op |-> "Close", err |-> "nil", val |-> <<>>]]
    /\ UNCHANGED <<db, wall>>
    /\ UNCHANGED NotIndex

\* The wall clock reads another time, later or earlier.
ClockMoves ==
    /\ \E t \in WallReadings : t # wall /\ wall' = t
    /\ UNCHANGED <<db, ix>>
    /\ UNCHANGED NotIndex

\* Index.Put(ctx, meta).
Put(cancelled, meta) ==
    /\ ix.open
    /\ IF ctxErr(cancelled) # "nil"
         THEN /\ ix' = Returns("Put", ctxErr(cancelled), <<>>)
              /\ UNCHANGED db
       ELSE IF meta.Path = ""
         THEN /\ ix' = Returns("Put", "path must not be empty", <<>>)
              /\ UNCHANGED db
         ELSE /\ db' = [db EXCEPT !.files =
                           [p \in DOMAIN @ \cup {meta.Path} |->
                               IF p = meta.Path
                                 THEN encodeFileMeta(normalizeFileMeta(meta, wall))
                                 ELSE @[p]]]
              /\ ix' = Returns("Put", "nil", <<>>)
    /\ UNCHANGED wall
    /\ UNCHANGED NotIndex

\* Index.Get(ctx, path): the entry is rewritten with AtimeLocal = time.Now().
Get(cancelled, path) ==
    /\ ix.open
    /\ IF ctxErr(cancelled) # "nil"
         THEN /\ ix' = Returns("Get", ctxErr(cancelled), <<>>)
              /\ UNCHANGED db
       ELSE IF path = ""
         THEN /\ ix' = Returns("Get", "path must not be empty", <<>>)
              /\ UNCHANGED db
       ELSE IF path \notin DOMAIN db.files
         THEN /\ ix' = Returns("Get", "ErrNotFound", <<>>)
              /\ UNCHANGED db
         ELSE LET meta == [decodeFileMeta(db.files[path]) EXCEPT !.AtimeLocal = wall]
              IN  /\ db' = [db EXCEPT !.files[path] = encodeFileMeta(meta)]
                  /\ ix' = Returns("Get", "nil", <<meta>>)
    /\ UNCHANGED wall
    /\ UNCHANGED NotIndex

\* Index.Update(ctx, path, fn); fn marks the chunks dirty, or fails.
Update(cancelled, path, op) ==
    /\ ix.open
    /\ IF ctxErr(cancelled) # "nil"
         THEN /\ ix' = Returns("Update", ctxErr(cancelled), <<>>)
              /\ UNCHANGED db
       ELSE IF path = ""
         THEN /\ ix' = Returns("Update", "path must not be empty", <<>>)
              /\ UNCHANGED db
       ELSE IF path \notin DOMAIN db.files
         THEN /\ ix' = Returns("Update", "ErrNotFound", <<>>)
              /\ UNCHANGED db
       ELSE IF op = "update_fail"
         THEN /\ ix' = Returns("Update", "fn failed", <<>>)
              /\ UNCHANGED db
         ELSE LET normalized == PutFor(op, path, decodeFileMeta(db.files[path]), wall)
              IN  /\ db' = [db EXCEPT !.files[path] = encodeFileMeta(normalized)]
                  /\ ix' = Returns("Update", "nil", <<normalized>>)
    /\ UNCHANGED wall
    /\ UNCHANGED NotIndex

\* Index.Delete(ctx, path).
Delete(cancelled, path) ==
    /\ ix.open
    /\ IF ctxErr(cancelled) # "nil"
         THEN /\ ix' = Returns("Delete", ctxErr(cancelled), <<>>)
              /\ UNCHANGED db
       ELSE IF path = ""
         THEN /\ ix' = Returns("Delete", "path must not be empty", <<>>)
              /\ UNCHANGED db
         ELSE /\ db' = [db EXCEPT !.files = IndexDelete(@, path)]
              /\ ix' = Returns("Delete", "nil", <<>>)
    /\ UNCHANGED wall
    /\ UNCHANGED NotIndex

\* metas[:limit] when 0 < limit < len(metas).
Limited(metas, limit) ==
    IF limit > 0 /\ limit < Len(metas) THEN SubSeq(metas, 1, limit) ELSE metas

\* Index.ListLRU(ctx, limit): a read-only transaction, sortFileMetasByAtime,
\* the limit.
IndexListLRU(cancelled, limit) ==
    /\ ix.open
    /\ IF ctxErr(cancelled) # "nil"
         THEN ix' = Returns("ListLRU", ctxErr(cancelled), <<>>)
         ELSE \E metas \in ListLRU(StoredMetas(db)) :
                 ix' = Returns("ListLRU", "nil", Limited(metas, limit))
    /\ UNCHANGED <<db, wall>>
    /\ UNCHANGED NotIndex

\* nextSequence: upload_seq read with Atoi, incremented, written with Itoa.
nextSequence(d) ==
    LET seq == (IF Len(d.upload_seq) > 0 THEN Atoi(d.upload_seq) ELSE 0) + 1
    IN  [db |-> [d EXCEPT !.upload_seq = Itoa(seq)], seq |-> seq]

\* Index.AddUpload(ctx, entry).
AddUpload(cancelled, entry) ==
    /\ ix.open
    /\ IF ctxErr(cancelled) # "nil"
         THEN /\ ix' = Returns("AddUpload", ctxErr(cancelled), <<>>)
              /\ UNCHANGED db
         ELSE LET stamped == [entry EXCEPT
                                 !.CreatedAt = IF @ = 0 THEN wall ELSE @,
                                 !.UpdatedAt = wall]
                  next == nextSequence(db)
                  d == IF entry.ID = <<>> THEN next.db ELSE db
                  result == IF entry.ID = <<>>
                              THEN [stamped EXCEPT !.ID = formatUploadID(next.seq)]
                              ELSE stamped
              IN  /\ entry.ID = <<>> => next.seq <= MaxUploadSeq
                  /\ db' = [d EXCEPT !.uploads =
                               [k \in DOMAIN @ \cup {result.ID} |->
                                   IF k = result.ID THEN encodeUpload(result) ELSE @[k]]]
                  /\ ix' = Returns("AddUpload", "nil", <<result>>)
    /\ UNCHANGED wall
    /\ UNCHANGED NotIndex

\* Index.ListUploads(ctx): the records in the order of the cursor.
ListUploads(cancelled) ==
    /\ ix.open
    /\ IF ctxErr(cancelled) # "nil"
         THEN ix' = Returns("ListUploads", ctxErr(cancelled), <<>>)
         ELSE LET order == CursorOrder(DOMAIN db.uploads)
              IN  ix' = Returns("ListUploads", "nil",
                                [i \in DOMAIN order |-> decodeUpload(db.uploads[order[i]])])
    /\ UNCHANGED <<db, wall>>
    /\ UNCHANGED NotIndex

\* The UpdatedAt of UpdateUploadStatus: time.Now(), or one nanosecond after
\* CreatedAt when time.Now() is not after CreatedAt.
UpdatedAtFor(rec, now) == IF ~(now > rec.CreatedAt) THEN rec.CreatedAt + 1 ELSE now

\* Index.UpdateUploadStatus(ctx, id, status, lastError).
IndexUpdateUploadStatus(cancelled, id, status, lastError) ==
    /\ ix.open
    /\ IF ctxErr(cancelled) # "nil"
         THEN /\ ix' = Returns("UpdateUploadStatus", ctxErr(cancelled), <<>>)
              /\ UNCHANGED db
       ELSE IF id = <<>>
         THEN /\ ix' = Returns("UpdateUploadStatus", "upload id must not be empty", <<>>)
              /\ UNCHANGED db
       ELSE IF id \notin DOMAIN db.uploads
         THEN /\ ix' = Returns("UpdateUploadStatus", "ErrNotFound", <<>>)
              /\ UNCHANGED db
         ELSE LET old == decodeUpload(db.uploads[id])
                  rec == [old EXCEPT !.Status = status,
                                     !.Attempts = @ + 1,
                                     !.LastError = lastError,
                                     !.UpdatedAt = UpdatedAtFor(old, wall)]
              IN  /\ old.Attempts < MaxStoredAttempts
                  /\ db' = [db EXCEPT !.uploads[id] = encodeUpload(rec)]
                  /\ ix' = Returns("UpdateUploadStatus", "nil", <<rec>>)
    /\ UNCHANGED wall
    /\ UNCHANGED NotIndex

\* What the caller passes: a path or none, FileMetas with a timestamp or a
\* blank one, a blank upload id or the id of a record it was given before.
CallPaths == Paths \cup {""}
CallMetas == { FileMeta(p, 30, FALSE, t) : p \in CallPaths, t \in {0, 1} }
CallIds == {<<>>, formatUploadID(1), formatUploadID(MaxUploadSeq + 1)}
CallEntries == { UploadEntry(id, 0) : id \in {<<>>, formatUploadID(1)} }

IndexNext ==
    \/ Open
    \/ Close
    \/ ClockMoves
    \/ \E c \in BOOLEAN, meta \in CallMetas : Put(c, meta)
    \/ \E c \in BOOLEAN, path \in CallPaths : Get(c, path)
    \/ \E c \in BOOLEAN, path \in CallPaths, op \in {"update_rename", "update_fail"} :
          Update(c, path, op)
    \/ \E c \in BOOLEAN, path \in CallPaths : Delete(c, path)
    \/ \E c \in BOOLEAN, limit \in 0..2 : IndexListLRU(c, limit)
    \/ \E c \in BOOLEAN, entry \in CallEntries : AddUpload(c, entry)
    \/ \E c \in BOOLEAN : ListUploads(c)
    \/ \E c \in BOOLEAN, id \in CallIds : IndexUpdateUploadStatus(c, id, "in_progress", "")

\* One database and its Index on their own.
InitIndex ==
    /\ DatabaseInit
    /\ files = <<>>
    /\ CleanerIdle
    /\ UploaderIdle
    /\ ContainerIdle
    /\ NoClients
    /\ NoProvider
    /\ NoConfig

SpecIndex == InitIndex /\ [][IndexNext]_vars

(***************************************************************************)
(* Properties of the cleaner and of the monitor, checked under SpecCleaner *)
(***************************************************************************)

\* C1: no step removes the container file or the index entry of a FileMeta
\* that has a dirty chunk when the step is taken, whenever the chunk was
\* marked dirty.
C1_DirtyNeverEvicted ==
    [][\A p \in Paths :
          (p \in DOMAIN files /\ ~isEvictable(files[p]))
             => /\ p \in DOMAIN files'
                /\ (p \in DOMAIN disk => p \in DOMAIN disk')]_vars

\* C4: when RunOnce is about to return nil, the sizes of the FileMetas left in
\* the index sum to at most max_cache_bytes (when it is positive), and after
\* an enospc pass the free space probed again is at least
\* total * min_free_percent / 100.
C4_NilMeansWithinLimits ==
    (pass.pc = "finish" /\ FinishErr(pass, disk) = "nil")
       => /\ (ccfg.MaxCacheBytes > 0 => IndexTotal(files) <= ccfg.MaxCacheBytes)
          /\ (pass.reason = "enospc"
                => LET st == DiskStat(disk, ccfg.capacity)
                   IN st[2] >= requiredFreeBytes(st[1], ccfg.MinFreePercent))

\* C10: a HandleENOSPC call whose cleaner pass ran to its end and left the
\* free space below total * min_free_percent / 100 returns ErrRecoveryFailed
\* and has not resumed uploads, also when the cache is still above
\* max_cache_bytes.
C10_LowSpaceNeverResumes ==
    \A h \in Handlers :
       LET st == DiskStat(disk, ccfg.capacity) IN
       (/\ hcall[h].pc = "exit"
        /\ hcall[h].cleanerRuns = 1
        /\ hcall[h].cleanerErr \notin {"none", "ctx"}
        /\ st[2] < requiredFreeBytes(st[1], ccfg.MinFreePercent))
          => /\ hcall[h].result = "ErrRecoveryFailed"
             /\ hcall[h].resumes = 0

\* C11: an enospc pass with min_free_percent > 0 that reaches its end while
\* the free space probed again is below the required free space returns
\* ErrFatalCondition; a dirty file is still in the index then and the clean
\* ones that were visited are evicted.
C11_LowSpaceIsFatal ==
    (/\ pass.pc = "finish"
     /\ pass.reason = "enospc"
     /\ ccfg.MinFreePercent > 0
     /\ DiskStat(disk, ccfg.capacity)[2] < pass.targetFree)
       => FinishErr(pass, disk) = "ErrFatalCondition"

\* Between beginRecovery returning true and the deferred endRecovery.
InRecovery(h) == hcall[h].pc \in {"pause", "run", "cleaning", "cleaned", "exit"}

C17_ResumeUnlessFatal ==
    \A h \in Handlers :
       (hcall[h].pc = "exit" /\ hcall[h].pauses = 1 /\ hcall[h].result # "pause_err")
          => IF hcall[h].cleanerErr = "ErrFatalCondition"
               THEN hcall[h].resumes = 0 /\ hcall[h].result = "ErrRecoveryFailed"
               ELSE /\ hcall[h].resumes = 1
                    /\ hcall[h].cleanerErr # "none"
                    /\ (hcall[h].cleanerErr # "nil" => hcall[h].result = "cleaner_err")

\* C17's case: the cleaner returned ErrFatalCondition and the call is about to
\* return without having resumed the uploader.
C17_Witness ==
    \E h \in Handlers :
       /\ hcall[h].pc = "exit"
       /\ hcall[h].pauses = 1
       /\ hcall[h].cleanerErr = "ErrFatalCondition"
       /\ hcall[h].resumes = 0

\* C18: the cleaner is run at most once per HandleENOSPC call, only after
\* pause returned success, with reason enospc; a call whose pause failed
\* returns that error with neither cleaner nor resume called; resume is
\* called only after the cleaner returned.
C18_CleanerAfterPauseOnly ==
    \A h \in Handlers :
       /\ hcall[h].pauses <= 1
       /\ hcall[h].cleanerRuns <= 1
       /\ (hcall[h].cleanerRuns = 1
             => hcall[h].pauses = 1 /\ hcall[h].result # "pause_err")
       /\ (hcall[h].result = "pause_err"
             => /\ hcall[h].pc = "exit"
                /\ hcall[h].cleanerRuns = 0
                /\ hcall[h].resumes = 0)
       /\ (hcall[h].resumes > 0
             => hcall[h].cleanerRuns = 1 /\ hcall[h].cleanerErr # "none")
       /\ (pass.owner = h
             => pass.reason = "enospc" /\ hcall[h].pc = "cleaning")

\* C18's case: the cleaner pass of a call is running after the call's one
\* successful pause.
C18_Witness ==
    \E h \in Handlers :
       /\ hcall[h].pc = "cleaning"
       /\ pass.owner = h
       /\ pass.pc = "loop"
       /\ hcall[h].pauses = 1
       /\ hcall[h].cleanerRuns = 1

(***************************************************************************)
(* Properties of the uploader, checked under SpecUploader and              *)
(* FairSpecUploader                                                        *)
(***************************************************************************)

Pending(id) == id \in DOMAIN uploads /\ uploads[id].Status \in {"queued", "in_progress"}
Terminal(id) == id \in DOMAIN uploads /\ uploads[id].Status \in {"complete", "failed"}

\* Between startProcessing(id) returning true and finishProcessing(id).
Processing(w) == wk[w].pc \in {"process", "upload"}

\* Inside Backend.Upload.
Uploading(w) == wk[w].pc = "upload"

\* C2: once a record's status is complete or failed, no step of the running
\* uploader changes the status or calls Backend.Upload for the record.
C2_TerminalRecordUntouched ==
    [][\A id \in UploadIds :
          Terminal(id) => /\ uploads'[id].Status = uploads[id].Status
                          /\ calls'[id] = calls[id]]_vars

\* The record sits in the index and only a scan the model no longer makes
\* would pick it up.
AwaitsTick(id) ==
    /\ ticks = MaxTicks
    /\ run.pc = "wait"
    /\ id \notin up.queued \cup up.inFlight
    /\ \A w \in DOMAIN wk : wk[w].rec.ID # id

\* C3: while Run is active with an uncancelled context and every Upload call
\* returns, every record that is queued or in_progress eventually is complete
\* or failed.
C3_PendingRecordSettles ==
    \A id \in UploadIds :
       (Pending(id) /\ ~uctx) ~> (Terminal(id) \/ uctx \/ AwaitsTick(id))

\* The ChunkMeta of the record's path with the record's range.
MatchingChunks(record) ==
    { c \in {files[record.Path].Chunks[i] : i \in DOMAIN files[record.Path].Chunks} :
        c.Offset = record.Offset /\ c.Length = record.Length }

\* C5: the ChunkMeta covering the range of a complete record has dirty = false.
C5_CompleteMeansClean ==
    \A id \in DOMAIN uploads :
       uploads[id].Status = "complete"
          => \A c \in MatchingChunks(uploads[id]) : ~c.Dirty

\* C7: no two workers are between startProcessing(id) = true and
\* finishProcessing(id) for the same id.
C7_OneWorkerPerRecord ==
    \A v, w \in DOMAIN wk :
       (v # w /\ Processing(v) /\ Processing(w)) => wk[v].rec.ID # wk[w].rec.ID

\* C7's case: a worker uploads a record while another worker, which retried
\* the same record, still holds it for the re-enqueue after its sleep.
C7_Witness ==
    \E v, w \in DOMAIN wk :
       /\ v # w
       /\ Uploading(v)
       /\ wk[w].pc = "sleep"
       /\ wk[v].rec.ID = wk[w].rec.ID

\* C8: Backend.Upload is invoked at most max_attempts times for a record.
C8_AtMostMaxAttemptsCalls ==
    \A id \in DOMAIN calls : calls[id] <= ucfg.MaxAttempts

Overlap(r, q) ==
    /\ r.Path = q.Path
    /\ r.Offset < q.Offset + q.Length
    /\ q.Offset < r.Offset + r.Length

\* C9: two records of one path whose ranges overlap are never both inside
\* Backend.Upload.
C9_NoOverlappingUploads ==
    \A v, w \in DOMAIN wk :
       (v # w /\ Uploading(v) /\ Uploading(w)) => ~Overlap(wk[v].rec, wk[w].rec)

\* C12: when Backend.Upload returns a context error because the uploader's
\* context is cancelled, the step that handles it leaves the record queued in
\* the index, starts no Sleep, and counts no more than the one status write of
\* the normal accounting.
C12_CancelledUploadRequeued ==
    [][\A w \in WorkerIds :
          UploadReturnsWith(w, "ctx")
             => /\ uploads'[wk[w].rec.ID].Status = "queued"
                /\ wk'[w].pc # "sleep"
                /\ slept' = slept
                /\ uploads'[wk[w].rec.ID].Attempts <= uploads[wk[w].rec.ID].Attempts + 1]_vars

\* C13: with a backend that fails k < max_attempts times with retryable
\* errors and then succeeds, Backend.Upload is called at most k+1 times for
\* the record and Sleep at most k times, the n-th sleep lasts
\* clamp(base * 2^(n-1), base, max), the delays never decrease and lie within
\* [base, max], and a record that is complete has had exactly k+1 calls and
\* k sleeps.
C13_RetriesThenCompletes ==
    LET ClampedDelay(n) ==
          LET d == ucfg.BaseRetryDelay * 2^(n - 1)
          IN IF d > ucfg.MaxRetryDelay THEN ucfg.MaxRetryDelay
             ELSE IF d < ucfg.BaseRetryDelay THEN ucfg.BaseRetryDelay
             ELSE d
    IN
    (ucfg.backend = "flaky" /\ ucfg.failFirst < ucfg.MaxAttempts)
       => \A id \in DOMAIN uploads :
             /\ calls[id] <= ucfg.failFirst + 1
             /\ Len(slept[id]) <= ucfg.failFirst
             /\ \A n \in DOMAIN slept[id] :
                   /\ slept[id][n] = ClampedDelay(n)
                   /\ slept[id][n] >= ucfg.BaseRetryDelay
                   /\ slept[id][n] <= ucfg.MaxRetryDelay
                   /\ (n > 1 => slept[id][n - 1] <= slept[id][n])
             /\ (uploads[id].Status = "complete"
                   => calls[id] = ucfg.failFirst + 1 /\ Len(slept[id]) = ucfg.failFirst)

\* C14: the step that handles an ETagMismatch answer of Backend.Upload leaves
\* the record failed with a non-empty LastError, starts no Sleep and records
\* one etag_mismatch failure in the metrics; a record with that failure
\* recorded gets no further Backend.Upload call and no second such failure.
C14_ETagMismatchFailsOnce ==
    [][/\ \A w \in WorkerIds :
             UploadReturnsWith(w, "etag")
                => /\ uploads'[wk[w].rec.ID].Status = "failed"
                   /\ uploads'[wk[w].rec.ID].LastError # ""
                   /\ wk'[w].pc # "sleep"
                   /\ slept' = slept
                   /\ metrics'[wk[w].rec.ID] = <<"etag_mismatch">>
       /\ \A id \in DOMAIN metrics :
             (\E n \in DOMAIN metrics[id] : metrics[id][n] = "etag_mismatch")
                => /\ calls'[id] = calls[id]
                   /\ uploads'[id].Status = "failed"]_vars

\* C15: at every moment the number of workers inside Backend.Upload is at most
\* max_concurrent_uploads.
C15_UploadsWithinMaxConcurrent ==
    Cardinality({w \in DOMAIN wk : Uploading(w)}) <= ucfg.workers

\* C15's case: as many uploads in progress as max_concurrent_uploads allows
\* while another record is still pending.
C15_Witness ==
    /\ Cardinality({w \in DOMAIN wk : Uploading(w)}) = ucfg.workers
    /\ \E id \in DOMAIN uploads :
          /\ Pending(id)
          /\ \A w \in DOMAIN wk : Uploading(w) => wk[w].rec.ID # id

\* C19: while the uploader is paused no worker starts processing a record,
\* a worker that is processing one can take its next step, and once the
\* uploader is resumed the scan loop can scan and enqueue again.
C19_PauseHoldsNewRecords ==
    /\ [][\A w \in DOMAIN wk :
            (paused /\ ~Processing(w)) => wk'[w].pc \notin {"process", "upload"}]_vars
    /\ [](\A w \in DOMAIN wk :
            (paused /\ Alive)
               => /\ (wk[w].pc = "process" => ENABLED ProcessRecord(w))
                  /\ (wk[w].pc = "upload" => ENABLED UploadReturns(w)))
    /\ []((~paused /\ Alive /\ run.pc = "wait" /\ ~uctx /\ ticks < MaxTicks)
            => ENABLED PausableTick)

\* C19's case: the uploader is paused, a worker holds a record it has received
\* and not started, and another worker is inside Backend.Upload.
C19_Witness ==
    /\ paused
    /\ \E v, w \in DOMAIN wk :
          /\ wk[v].pc = "start"
          /\ Uploading(w)

(***************************************************************************)
(* Properties of the index, checked under SpecClients                      *)
(***************************************************************************)

\* C20: the FileMeta an Update or a Get commits is its mutation (fn, or the
\* new AtimeLocal) applied to the FileMeta stored at that moment, so what
\* another call committed meanwhile is kept; once two calls have returned,
\* the stored FileMeta shows the mutation of each.
C20_NoLostUpdate ==
    /\ [][\A c \in Clients :
            (cl[c].pc = "commit" /\ cl'[c].pc = "done")
               => files'["a"] = PutFor(cl[c].op, "a", files["a"], cl[c].pending.AtimeLocal)]_vars
    /\ [](\A c \in Clients :
            (cl[c].pc = "done" /\ cl[c].err = "nil")
               => /\ (cl[c].op = "update_dirty" => ~isEvictable(files["a"]))
                  /\ (cl[c].op = "update_grow" => files["a"].Size >= cl[c].pending.Size)
                  /\ (cl[c].op = "get"
                        => files["a"].AtimeLocal >= cl[c].pending.AtimeLocal))

\* C20's case: an Update has committed and returned, and the Get of the
\* other caller, inside its transaction, is putting the new AtimeLocal on the
\* FileMeta the Update left.
C20_Witness ==
    /\ cl["c2"].pc = "done"
    /\ cl["c2"].op = "update_grow"
    /\ cl["c2"].err = "nil"
    /\ cl["c1"].pc = "commit"
    /\ cl["c1"].op = "get"
    /\ cl["c1"].current = cl["c2"].pending
    /\ cl["c1"].pending.Size = cl["c2"].pending.Size

(***************************************************************************)
(* Properties of the container, checked under SpecContainer                *)
(***************************************************************************)

\* C6: for a container opened on a path with a committed file, the committed
\* path holds the complete previous content at every point before Close
\* returns success (a crash or a failed step inside Close included), and
\* exactly the staged content once Close has returned success.
C6_CommittedPathIntact ==
    cont.prev.exists
       => IF cont.pc = "returned" /\ cont.err = "nil"
            THEN finalFile = [exists |-> TRUE, bytes |-> cont.staged]
            ELSE finalFile = cont.prev

\* C29: when a Container whose Close returned nil is followed by a new
\* OpenContainer on the same path, ReadAt on the new Container returns, at
\* every position written through the first one, the byte written there
\* last, and at every other position of the file committed before, that
\* file's byte (positions cut off by a Truncate of the first Container
\* aside); and the staging file of every OpenContainer starts as a
\* byte-identical copy of the committed file.
C29_WrittenBytesSurviveReopen ==
    [][ (OpenContainer /\ cont'.pc = "open")
          => /\ tempFile'.bytes = (IF finalFile.exists THEN finalFile.bytes ELSE <<>>)
             /\ (cont.pc = "returned" /\ cont.err = "nil")
                   => /\ \A i \in DOMAIN cont.wrote :
                            ReadAtBytes(tempFile'.bytes, 1, i - 1) =
                               [data |-> <<cont.wrote[i]>>, err |-> "nil"]
                      /\ \A n \in 1..(MaxFileLen + 1), off \in 0..(MaxFileLen + 1) :
                            LET r == ReadAtBytes(tempFile'.bytes, n, off)
                            IN  \A k \in 1..Len(r.data) :
                                   IF off + k \in DOMAIN cont.wrote
                                     THEN r.data[k] = cont.wrote[off + k]
                                     ELSE off + k <= cont.kept
                                             => r.data[k] = cont.prev.bytes[off + k]
      ]_vars

\* The second Container on a path: the file committed by the first is
\* <<1, 2>>, whose 2 was written through the first (the files there are at the
\* start hold no 2), and ReadAt(2 bytes, offset 0) on the second returns it.
C29_Witness ==
    /\ cont.opens = 2
    /\ cont.pc = "open"
    /\ cont.prev = [exists |-> TRUE, bytes |-> <<1, 2>>]
    /\ cont.wrote = <<>>
    /\ cont.ret = [op |-> "ReadAt", err |-> "nil", data |-> <<1, 2>>]

\* C30: on a closed Container, Close returns nil and WriteAt, ReadAt,
\* Truncate and Fsync return ErrClosed, and none of them changes the
\* committed file, the staging file or the Container.
C30_ClosedContainerIsInert ==
    [][ (cont.closed /\ cont'.opens = cont.opens /\ crashed' = crashed)
          => /\ finalFile' = finalFile
             /\ tempFile' = tempFile
             /\ cont' = [cont EXCEPT !.ret = cont'.ret]
             /\ cont'.ret # cont.ret
                   => /\ cont'.ret.op \in {"Close", "WriteAt", "ReadAt", "Truncate", "Fsync"}
                      /\ cont'.ret.err = (IF cont'.ret.op = "Close" THEN "nil" ELSE "ErrClosed")
                      /\ cont'.ret.data = <<>>
      ]_vars

\* A second Close has returned nil on a Container whose first Close committed
\* the staged bytes <<2, 1>> over a committed file.
C30_Witness ==
    /\ cont.closed
    /\ cont.err = "nil"
    /\ cont.prev.exists
    /\ cont.staged = <<2, 1>>
    /\ finalFile = [exists |-> TRUE, bytes |-> <<2, 1>>]
    /\ cont.ret = [op |-> "Close", err |-> "nil", data |-> <<>>]

(***************************************************************************)
(* Shutdown of the uploader, checked under FairSpecUploader                *)
(***************************************************************************)

\* C28: once the context is cancelled, Run eventually has returned with
\* every worker exited, and a worker that is in its backoff sleep under a
\* cancelled context leaves the sleep by the cancellation, not by the delay
\* running out.
C28_CancelStopsRunAndSleepers ==
    /\ uctx ~> (run.pc = "stopped" /\ \A w \in DOMAIN wk : wk[w].pc = "exited")
    /\ [][ \A w \in WorkerIds :
             (w \in DOMAIN wk /\ wk[w].pc = "sleep" /\ uctx) => ~SleepDone(w)
         ]_vars

(***************************************************************************)
(* Properties of the bbolt index, checked under SpecIndex                  *)
(***************************************************************************)

\* C21: every CacheIndex call made with an already-cancelled context returns
\* an error and leaves the database as it was: the files, uploads and stats
\* buckets are unchanged, so Get writes no AtimeLocal, AddUpload stores no
\* record and draws no upload_seq value, UpdateUploadStatus adds no attempt.
C21_CancelledCallChangesNothing ==
    [][ LET CancelledCall ==
              /\ ix.open
              /\ \/ ix'.ret.op = "Put" /\ \E meta \in CallMetas : Put(TRUE, meta)
                 \/ ix'.ret.op = "Get" /\ \E path \in CallPaths : Get(TRUE, path)
                 \/ ix'.ret.op = "Update" /\
                       \E path \in CallPaths, op \in {"update_rename", "update_fail"} :
                          Update(TRUE, path, op)
                 \/ ix'.ret.op = "Delete" /\ \E path \in CallPaths : Delete(TRUE, path)
                 \/ ix'.ret.op = "ListLRU" /\ \E limit \in 0..2 : IndexListLRU(TRUE, limit)
                 \/ ix'.ret.op = "AddUpload" /\ \E entry \in CallEntries : AddUpload(TRUE, entry)
                 \/ ix'.ret.op = "ListUploads" /\ ListUploads(TRUE)
                 \/ ix'.ret.op = "UpdateUploadStatus" /\
                       \E id \in CallIds : IndexUpdateUploadStatus(TRUE, id, "in_progress", "")
        IN  CancelledCall => (ix'.ret.err # "nil" /\ ix'.ret.val = <<>> /\ db' = db)
      ]_vars

\* A cancelled UpdateUploadStatus has returned its error on a database that
\* holds FileMetas and the record the call named.
C21_Witness ==
    /\ ix.ret.op = "UpdateUploadStatus"
    /\ ix.ret.err = "context canceled"
    /\ formatUploadID(1) \in DOMAIN db.uploads
    /\ DOMAIN db.files = Paths
    /\ Len(db.upload_seq) > 0

\* C22: every UpdateUploadStatus call on a stored record adds exactly 1 to
\* Attempts, leaves an UpdatedAt strictly greater than the one the record had
\* before the call (whatever the clock reads) and keeps CreatedAt; a call for
\* an unknown id returns ErrNotFound and changes nothing.
C22_UpdatedAtStrictlyIncreases ==
    [][ \A id \in CallIds \ {<<>>} :
          IndexUpdateUploadStatus(FALSE, id, "in_progress", "") =>
             IF id \in DOMAIN db.uploads
               THEN LET old == StoredUploads(db)[id]
                        new == StoredUploads(db')[id]
                    IN  /\ new.Attempts = old.Attempts + 1
                        /\ new.UpdatedAt > old.UpdatedAt
                        /\ new.CreatedAt = old.CreatedAt
               ELSE ix'.ret.err = "ErrNotFound" /\ db' = db
      ]_vars

\* C23: every successful AddUpload adds one record under an id that no stored
\* record has and leaves the other records as they are; an id assigned for a
\* blank id is greater than every id stored before, also after Close and
\* Open; ListUploads returns the records in ascending id order.
C23_AddUploadNeverReplaces ==
    /\ [][ \A entry \in CallEntries :
             AddUpload(FALSE, entry) =>
                LET new == ix'.ret.val[1].ID
                IN  /\ new \notin DOMAIN db.uploads
                    /\ DOMAIN db'.uploads = DOMAIN db.uploads \cup {new}
                    /\ \A k \in DOMAIN db.uploads : db'.uploads[k] = db.uploads[k]
                    /\ entry.ID = <<>> => \A k \in DOMAIN db.uploads : BytesLess(k, new)
         ]_vars
    /\ [](ix.ret.op = "ListUploads" /\ ix.ret.err = "nil" =>
            /\ Len(ix.ret.val) = Cardinality(DOMAIN db.uploads)
            /\ \A i, j \in DOMAIN ix.ret.val :
                  i < j => BytesLess(ix.ret.val[i].ID, ix.ret.val[j].ID))

\* C24: a successful ListLRU(limit) changes nothing and returns stored
\* FileMetas in ascending AtimeLocal, equal AtimeLocal in ascending Path:
\* all of them when limit is 0 or not below their number, otherwise the
\* first `limit` of that order; after a successful Get no other entry has a
\* later AtimeLocal than the entry read.
C24_ListLRUOrderAndLimit ==
    [][ LET Rank(p) == IF p = "a" THEN 1 ELSE 2
            Before(m, n) ==
                \/ m.AtimeLocal < n.AtimeLocal
                \/ m.AtimeLocal = n.AtimeLocal /\ Rank(m.Path) < Rank(n.Path)
        IN  /\ \A limit \in 0..2 :
                  IndexListLRU(FALSE, limit) =>
                     LET val == ix'.ret.val
                         stored == StoredMetas(db)
                         count == Cardinality(DOMAIN stored)
                     IN  /\ db' = db
                         /\ Len(val) = IF limit = 0 \/ limit >= count THEN count ELSE limit
                         /\ \A i \in DOMAIN val :
                               val[i].Path \in DOMAIN stored /\ val[i] = stored[val[i].Path]
                         /\ \A i, j \in DOMAIN val : i < j => Before(val[i], val[j])
                         /\ \A q \in DOMAIN stored :
                               (\A i \in DOMAIN val : val[i].Path # q) =>
                                  \A i \in DOMAIN val : Before(val[i], stored[q])
            /\ \A path \in Paths :
                  Get(FALSE, path) /\ path \in DOMAIN db.files =>
                     \A q \in DOMAIN db'.files :
                        StoredMetas(db')[q].AtimeLocal <= StoredMetas(db')[path].AtimeLocal
      ]_vars

C26_SchemaVersionOnOpen ==
    [][ Open =>
          IF Len(db.schema_version) = 0
            THEN /\ ix'.open
                 /\ db'.schema_version = Itoa(currentSchemaVersion)
                 /\ db'.buckets = {"files", "uploads", "stats"}
          ELSE IF Atoi(db.schema_version) > currentSchemaVersion
            THEN /\ ~ix'.open
                 /\ ix'.ret.err = "errUnknownSchema"
                 /\ db' = db
          ELSE IF Atoi(db.schema_version) < currentSchemaVersion
            THEN /\ ix'.open
                 /\ db'.schema_version = Itoa(currentSchemaVersion)
                 /\ db'.buckets = {"files", "uploads", "stats"}
                 /\ StoredMetas(db') = StoredMetas(db)
            ELSE /\ ix'.open
                 /\ db' = db
      ]_vars

\* Open has refused a database written by a later version.
C26_Witness ==
    /\ ix.ret.op = "Open"
    /\ ix.ret.err = "errUnknownSchema"
    /\ ~ix.open
    /\ Atoi(db.schema_version) = currentSchemaVersion + 1
    /\ DOMAIN db.files = {"a"}

(***************************************************************************)
(* Properties of a cleaner pass, checked under SpecEviction                *)
(***************************************************************************)

\* C27: RunOnce evicts in the order of its ListLRU snapshot and stops as soon
\* as the thresholds hold: when it evicts a file, no evictable file with a
\* smaller AtimeLocal is left in the index, and neither the pass's own
\* usage and free space nor the sizes left in the index and the free space
\* on disk satisfy usage <= limit and, in an emergency pass, free >=
\* required free; a maintenance pass over clean files a, b, c of sizes 40,
\* 30, 20 with max_cache_bytes = 60 ends having evicted exactly a, with b
\* and c left and a usage of 50.
C27_EvictsInLRUOrderUntilThresholds ==
    /\ [][ (LoopStep /\ pass'.pc = "delete") =>
             LET m == pass.metas[pass.i]
             IN  /\ \A q \in DOMAIN files :
                       ~(/\ q # m.Path
                         /\ isEvictable(files[q])
                         /\ files[q].AtimeLocal < m.AtimeLocal)
                 /\ \A k \in 1..Len(pass.evicted) :
                       \E j \in 1..(pass.i - 1) : pass.metas[j].Path = pass.evicted[k]
                 /\ ~(/\ pass.usage <= pass.limit
                      /\ (pass.emergency => pass.freeCap >= pass.targetFree))
                 /\ ~(/\ IndexTotal(files) <= pass.limit
                      /\ (pass.emergency =>
                            DiskStat(disk, ccfg.capacity)[2] >= pass.targetFree))
         ]_vars
    /\ []((/\ pass.pc = "finish"
           /\ pass.reason = "maintenance"
           /\ ccfg.MaxCacheBytes = 60
           /\ pass.metas = <<FileMeta("a", 40, FALSE, 1), FileMeta("b", 30, FALSE, 2),
                             FileMeta("c", 20, FALSE, 3)>>)
            => /\ pass.evicted = <<"a">>
               /\ DOMAIN files = {"b", "c"}
               /\ DOMAIN disk = {"b", "c"}
               /\ IndexTotal(files) = 50
               /\ pass.usage = 50
               /\ FinishErr(pass, disk) = "nil")

\* The pass over the files of 40, 30 and 20 bytes is about to return, with a
\* evicted.
C27_Witness ==
    /\ pass.pc = "finish"
    /\ pass.reason = "maintenance"
    /\ ccfg.MaxCacheBytes = 60
    /\ pass.metas = <<FileMeta("a", 40, FALSE, 1), FileMeta("b", 30, FALSE, 2),
                      FileMeta("c", 20, FALSE, 3)>>
    /\ pass.evicted = <<"a">>
    /\ DOMAIN files = {"b", "c"}

(***************************************************************************)
(* The task channel and the two sets of the Uploader, checked under        *)
(* FairSpecUploader (C34) and SpecUploader (C35, C36)                      *)
(***************************************************************************)

\* C34: with the context not cancelled, the uploader is never in a state
\* where every worker is in enqueue's select with a retried record and the
\* task channel is full, so that nobody is left to receive.
C34_NoWorkerBlockedOnFullChannel ==
    ~ /\ ~uctx
      /\ DOMAIN wk # {}
      /\ Len(tasks.buf) = TasksCap
      /\ \A w \in DOMAIN wk : wk[w].pc = "send"

\* C35: no worker sends on the task channel after Run has closed it.
C35_NoSendAfterClose ==
    [][ \A w \in WorkerIds :
           (WorkerSend(w) /\ tasks.closed) => (wk'[w].pc # "panic" /\ tasks' = tasks)
      ]_vars

\* C36: queued and inFlight are disjoint; inFlight holds exactly the ids
\* some worker is processing; every queued id is in the task channel or
\* being sent to it (a send on the closed channel counted as a send); once
\* Run has returned both sets are empty.
C36_QueuedAndInFlight ==
    /\ up.queued \cap up.inFlight = {}
    /\ up.inFlight = { wk[w].rec.ID : w \in { v \in DOMAIN wk : Processing(v) } }
    /\ \A id \in up.queued :
          \/ \E i \in DOMAIN tasks.buf : tasks.buf[i].ID = id
          \/ run.pc = "send" /\ run.rec.ID = id
          \/ \E w \in DOMAIN wk : wk[w].pc \in {"send", "panic"} /\ wk[w].rec.ID = id
    /\ run.pc = "stopped" => (up.queued = {} /\ up.inFlight = {})

\* C36, amended: as above, but a queued id may also belong to a record that
\* a worker has received from the channel and not yet handed to
\* startProcessing.
C36_QueuedInChannelSentOrReceived ==
    /\ up.queued \cap up.inFlight = {}
    /\ up.inFlight = { wk[w].rec.ID : w \in { v \in DOMAIN wk : Processing(v) } }
    /\ \A id \in up.queued :
          \/ \E i \in DOMAIN tasks.buf : tasks.buf[i].ID = id
          \/ run.pc = "send" /\ run.rec.ID = id
          \/ \E w \in DOMAIN wk :
                wk[w].pc \in {"send", "panic", "start"} /\ wk[w].rec.ID = id
    /\ run.pc = "stopped" => (up.queued = {} /\ up.inFlight = {})

\* A worker has received record 1 and not yet called startProcessing: the id
\* is in queued and the record is no longer in the channel, while the other
\* worker processes record 2.
C36_Witness ==
    /\ 1 \in up.queued
    /\ \A i \in DOMAIN tasks.buf : tasks.buf[i].ID # 1
    /\ \E v, w \in DOMAIN wk :
          /\ wk[w].pc = "start" /\ wk[w].rec.ID = 1
          /\ Processing(v) /\ wk[v].rec.ID = 2
    /\ up.inFlight = {2}

\* C40: when OpenChunk fails for the record a worker processes, the step
\* leaves the record failed with a last_error and one more open_chunk
\* failure in the metrics, calls Backend.Upload not at all, makes no Sleep,
\* does not re-enqueue the record and takes its id out of inFlight.
C40_OpenFailureFailsAtOnce ==
    [][ \A w \in WorkerIds :
           (/\ ProcessRecord(w)
            /\ wk[w].rec.Attempts \div 2 < ucfg.MaxAttempts
            /\ ~uctx
            /\ wk'[w].pc # "upload")
              => LET id == wk[w].rec.ID
                 IN  /\ uploads'[id].Status = "failed"
                     /\ uploads'[id].LastError # ""
                     /\ ucfg.recording => metrics'[id] = Append(metrics[id], "open_chunk")
                     /\ calls' = calls
                     /\ slept' = slept
                     /\ id \notin up'.inFlight
                     /\ id \notin up'.queued
                     /\ tasks' = tasks
                     /\ wk'[w].pc = "recv"
      ]_vars

(***************************************************************************)
(* Leaving recovery mode, checked under SpecEviction                       *)
(***************************************************************************)

\* C38: a HandleENOSPC call that had entered recovery leaves it when it
\* returns, whatever it returns; m.recovering is set only while such a call
\* is running; and a call is answered ErrRecoveryInProgress only while
\* another call is in recovery.
C38_RecoveryLeftOnReturn ==
    /\ [](recovering => \E h \in Handlers : InRecovery(h))
    /\ [][\A h \in Handlers :
            (hcall[h].pc = "exit" /\ hcall'[h].pc = "idle")
               => /\ hcall[h].result \in
                        {"nil", "pause_err", "cleaner_err", "ErrRecoveryFailed", "resume_err"}
                  /\ ~recovering']_vars
    /\ [][\A h \in Handlers :
            (hcall[h].pc = "idle" /\ hcall'[h].result = "ErrRecoveryInProgress")
               => \E g \in Handlers \ {h} : InRecovery(g)]_vars

\* A HandleENOSPC call has come and gone (with no max_cache_bytes only its
\* enospc pass evicts, and "a" is evicted) and a later call has been let into
\* recovery.
C38_Witness ==
    /\ ccfg.MaxCacheBytes = 0
    /\ "a" \notin DOMAIN files
    /\ pass.pc = "idle"
    /\ \E h \in Handlers :
          /\ hcall[h].pc = "pause"
          /\ \A g \in Handlers \ {h} : hcall[g].pc = "idle"

(***************************************************************************)
(* One eviction, checked under SpecEviction                                *)
(***************************************************************************)

\* C37: when evict returns for a file, either it succeeded and both the
\* container file and the index entry are gone, or it failed and both are
\* still there; and between passes every index entry has its container file.
C37_EvictionAllOrNothing ==
    /\ [][ (pass.pc = "delete" /\ pass'.pc = "loop")
             => LET path == pass.metas[pass.i].Path
                IN  IF pass'.evicted # pass.evicted
                      THEN path \notin DOMAIN files' /\ path \notin DOMAIN disk'
                      ELSE path \in DOMAIN files' /\ path \in DOMAIN disk'
         ]_vars
    /\ [](pass.pc = "idle" => DOMAIN files \subseteq DOMAIN disk)

(***************************************************************************)
(* Index.Update, checked under SpecIndex                                   *)
(***************************************************************************)

\* C39: an Update whose function fails, or whose path is absent, returns an
\* error and leaves the database as it was; an Update that succeeds stores
\* and returns its result under the path it was called with, the Path being
\* that path whatever the function returned, and leaves every other entry
\* and every other bucket as they were.
C39_UpdateTouchesOnlyItsPath ==
    [][ \A path \in CallPaths, op \in {"update_rename", "update_fail"} :
           (ix'.ret.op = "Update" /\ Update(FALSE, path, op))
              => /\ (op = "update_fail" \/ path \notin DOMAIN db.files) => ix'.ret.err # "nil"
                 /\ IF ix'.ret.err # "nil"
                      THEN db' = db /\ ix'.ret.val = <<>>
                      ELSE /\ path \in DOMAIN db.files
                           /\ DOMAIN db'.files = DOMAIN db.files
                           /\ \A q \in DOMAIN db.files \ {path} : db'.files[q] = db.files[q]
                           /\ [db' EXCEPT !.files = db.files] = db
                           /\ ix'.ret.val = <<StoredMetas(db')[path]>>
                           /\ StoredMetas(db')[path].Path = path
      ]_vars

\* Update("a") has returned the FileMeta it stored, still with Path "a"
\* although its function named another path (only that function sets a dirty
\* chunk here), while the entry of "b" is as it was put.
C39_Witness ==
    /\ ix.ret.op = "Update"
    /\ ix.ret.err = "nil"
    /\ ix.ret.val[1].Path = "a"
    /\ ~isEvictable(ix.ret.val[1])
    /\ DOMAIN db.files = {"a", "b"}
    /\ StoredMetas(db)["a"] = ix.ret.val[1]
    /\ isEvictable(StoredMetas(db)["b"])

(***************************************************************************)
(* LocalFileChunkProvider.OpenChunk and the stream it returns              *)
(***************************************************************************)

\* A path is a string, a sequence of characters; record paths are all the
\* strings of up to MaxPathLen characters.
PathChars == {"/", ".", "a"}

MaxPathLen == 7

RecordPaths == UNION {[1..n -> PathChars] : n \in 0..MaxPathLen}

\* Offsets and lengths of the upload records handed to OpenChunk, and the
\* sizes of the container file.
RecordOffsets == {-1, 0, 1, 2}

RecordLengths == {-1, 0, 1, 2, 3}

ChunkFileSizes == 0..3

\* The sizes of the buffers the stream is read with.
BufferSizes == {1, 2}

\* strings.HasPrefix.
HasPrefix(s, prefix) == Len(s) >= Len(prefix) /\ SubSeq(s, 1, Len(prefix)) = prefix

\* filepath.IsAbs (Unix): the path starts with a separator.
IsAbs(path) == HasPrefix(path, <<"/">>)

\* The elements of a path between its separators, empty ones included.
RECURSIVE splitElements(_)
splitElements(path) ==
    IF path = <<>> THEN << <<>> >>
    ELSE LET front == splitElements(SubSeq(path, 1, Len(path) - 1))
             c == path[Len(path)]
         IN  IF c = "/" THEN Append(front, <<>>)
             ELSE [front EXCEPT ![Len(front)] = Append(@, c)]

\* The elements filepath.Clean keeps: empty and "." elements go, ".." takes
\* the element before it away, or goes itself at the start of a rooted path.
RECURSIVE cleanElements(_, _)
cleanElements(elems, rooted) ==
    IF elems = <<>> THEN <<>>
    ELSE LET out == cleanElements(SubSeq(elems, 1, Len(elems) - 1), rooted)
             e == elems[Len(elems)]
         IN  IF e = <<>> \/ e = <<".">> THEN out
             ELSE IF e # <<".", ".">> THEN Append(out, e)
             ELSE IF out # <<>> /\ out[Len(out)] # <<".", ".">>
                  THEN SubSeq(out, 1, Len(out) - 1)
             ELSE IF rooted THEN out
             ELSE Append(out, e)

RECURSIVE joinElements(_)
joinElements(elems) ==
    IF elems = <<>> THEN <<>>
    ELSE IF Len(elems) = 1 THEN elems[1]
    ELSE joinElements(SubSeq(elems, 1, Len(elems) - 1)) \o <<"/">> \o elems[Len(elems)]

\* filepath.Clean.
Clean(path) ==
    LET rooted == IsAbs(path)
        body == joinElements(cleanElements(splitElements(path), rooted))
    IN  IF rooted THEN <<"/">> \o body
        ELSE IF body = <<>> THEN <<".">>
        ELSE body

\* filepath.Join of two elements: empty elements are ignored, the result is
\* cleaned.
Join(dir, path) ==
    IF dir = <<>> /\ path = <<>> THEN <<>>
    ELSE IF dir = <<>> THEN Clean(path)
    ELSE IF path = <<>> THEN Clean(dir)
    ELSE Clean(dir \o <<"/">> \o path)

\* The cache root, the container file in it and a file next to the root.
RootDir == <<"/", "r">>

ContainerPath == <<"/", "r", "/", "a">>

OutsidePath == <<"/", "a">>

\* The directories and files of the machine: the container holds the bytes
\* 1, 2, ... of its size.
DiskWith(size) ==
    [p \in {<<"/">>, RootDir, ContainerPath, OutsidePath} |->
        IF p = ContainerPath THEN [dir |-> FALSE, bytes |-> [i \in 1..size |-> i]]
        ELSE IF p = OutsidePath THEN [dir |-> FALSE, bytes |-> <<9>>]
        ELSE [dir |-> TRUE, bytes |-> <<>>]]

NoStream == [file |-> <<>>, base |-> 0, off |-> 0, limit |-> 0]

\* A provider nobody has called: rec, err, opened and stream are the record,
\* the error, the paths handed to os.Open and the stream of the last
\* OpenChunk, got the bytes read from the stream and end how reading ended.
ProviderAt(root, onDisk) ==
    [Root |-> root, disk |-> onDisk, pc |-> "idle",
     rec |-> [Path |-> <<>>, Offset |-> 0, Length |-> 0], err |-> "nil", opened |-> <<>>,
     stream |-> NoStream, got |-> <<>>, end |-> "none"]

ProviderInit ==
    cp \in {ProviderAt(root, DiskWith(size)) : root \in {<<>>, RootDir}, size \in ChunkFileSizes}

\* OpenChunk returns an error.
chunkError(c, rec, err, opened) ==
    [c EXCEPT !.pc = "returned", !.rec = rec, !.err = err, !.opened = opened]

\* The test OpenChunk makes on the cleaned record path.
invalidPathAbsOnly(cleanPath) == IsAbs(cleanPath)
invalidPath(cleanPath) == IsAbs(cleanPath) \/ HasPrefix(cleanPath, <<".", ".">>)

\* io.NewSectionReader(file, off, n).
NewSectionReader(file, off, n) == [file |-> file, base |-> off, off |-> off, limit |-> off + n]

\* OpenChunk(ctx, record) from its first line to its return.
OpenChunkResult(c, cancelled, rec) ==
    LET cleanPath == Clean(rec.Path)
        fullPath == Join(c.Root, cleanPath)
        size == Len(c.disk[fullPath].bytes)
        length == IF rec.Length <= 0 THEN size - rec.Offset ELSE rec.Length
    IN  IF cancelled THEN chunkError(c, rec, "context canceled", <<>>)
        ELSE IF c.Root = <<>> THEN chunkError(c, rec, "root directory is not configured", <<>>)
        ELSE IF rec.Path = <<>> THEN chunkError(c, rec, "record path is empty", <<>>)
        ELSE IF rec.Offset < 0 THEN chunkError(c, rec, "negative offset", <<>>)
        ELSE IF invalidPath(cleanPath) THEN chunkError(c, rec, "invalid path", <<>>)
        ELSE IF fullPath \notin DOMAIN c.disk
             THEN chunkError(c, rec, "open file", <<fullPath>>)
        ELSE IF length < 0
             THEN chunkError(c, rec, "invalid length derived from file size", <<fullPath>>)
        ELSE [c EXCEPT !.pc = "returned", !.rec = rec, !.err = "nil",
                       !.opened = <<fullPath>>,
                       !.stream = NewSectionReader(fullPath, rec.Offset, length)]

\* A caller hands OpenChunk a context and an upload record.
OpenChunk ==
    /\ cp # <<>>
    /\ cp.pc = "idle"
    /\ \E cancelled \in BOOLEAN :
          \E path \in RecordPaths, offset \in RecordOffsets, length \in RecordLengths :
             cp' = OpenChunkResult(cp, cancelled,
                                   [Path |-> path, Offset |-> offset, Length |-> length])
    /\ UNCHANGED NotProvider

\* SectionReader.Read into a buffer of n bytes: the reader stops at its
\* limit, File.ReadAt stops at the end of the file, and a directory cannot be
\* read.
SectionRead(c, n) ==
    LET s == c.stream
        file == c.disk[s.file]
        want == Min(n, s.limit - s.off)
        have == Max(0, Min(want, Len(file.bytes) - s.off))
    IN  IF s.off >= s.limit THEN [c EXCEPT !.end = "EOF"]
        ELSE IF file.dir THEN [c EXCEPT !.end = "is a directory"]
        ELSE [c EXCEPT !.stream.off = s.off + have,
                       !.got = @ \o SubSeq(file.bytes, s.off + 1, s.off + have),
                       !.end = IF have < want THEN "EOF" ELSE "none"]

ReadChunk(n) ==
    /\ cp # <<>>
    /\ cp.pc = "returned"
    /\ cp.err = "nil"
    /\ cp.end = "none"
    /\ cp' = SectionRead(cp, n)
    /\ UNCHANGED NotProvider

\* The caller is done with the outcome of OpenChunk; a stream is closed
\* (fileSectionReadCloser.Close).
CloseChunk ==
    /\ cp # <<>>
    /\ cp.pc = "returned"
    /\ cp' = ProviderAt(cp.Root, cp.disk)
    /\ UNCHANGED NotProvider

ProviderNext ==
    \/ OpenChunk
    \/ \E n \in BufferSizes : ReadChunk(n)
    \/ CloseChunk

InitProvider ==
    /\ ProviderInit
    /\ files = <<>>
    /\ CleanerIdle
    /\ UploaderIdle
    /\ ContainerIdle
    /\ NoClients
    /\ NoDatabase
    /\ NoConfig

SpecProvider == InitProvider /\ [][ProviderNext]_vars

\* C31: OpenChunk returns an error, and has handed no path to os.Open, for
\* every record path that is absolute or that, joined to the cache root, names
\* a place outside the root (neither the root nor a path below it).
C31_EscapingPathsRejected ==
    (/\ cp # <<>>
     /\ cp.pc = "returned"
     /\ \/ IsAbs(cp.rec.Path)
        \/ /\ cp.Root # <<>>
           /\ LET joined == Clean(cp.Root \o <<"/">> \o cp.rec.Path)
              IN  joined # cp.Root /\ ~HasPrefix(joined, cp.Root \o <<"/">>))
        => (cp.err # "nil" /\ cp.opened = <<>>)

\* A live provider was asked for "../a", which names the file next to the
\* root, and refused.
C31_Witness ==
    /\ cp # <<>>
    /\ cp.pc = "returned"
    /\ cp.Root = RootDir
    /\ cp.rec.Path = <<".", ".", "/", "a">>
    /\ cp.rec.Offset = 0
    /\ OutsidePath \in DOMAIN cp.disk
    /\ cp.err = "invalid path"
    /\ cp.opened = <<>>

\* C32: a stream that OpenChunk returned and that was read to its end has
\* yielded, for a record with length > 0, exactly length bytes, the bytes of
\* the file at [offset, offset+length), also when the file is shorter than
\* offset+length; for a record with length 0, the bytes from offset to the end
\* of the file.
C32_StreamYieldsTheSection ==
    (/\ cp # <<>>
     /\ cp.pc = "returned"
     /\ cp.err = "nil"
     /\ cp.end = "EOF")
        => LET bytes == cp.disk[cp.stream.file].bytes
               offset == cp.rec.Offset
               length == cp.rec.Length
           IN  /\ length > 0 =>
                     /\ Len(cp.got) = length
                     /\ \A i \in 1..length :
                           offset + i \in DOMAIN bytes /\ cp.got[i] = bytes[offset + i]
               /\ length = 0 => cp.got = SubSeq(bytes, offset + 1, Len(bytes))

(***************************************************************************)
(* LoadConfig: config.yaml, its template, defaults and validation          *)
(***************************************************************************)

\* The integer keys of config.yaml with the default constants of the
\* package.
IntDefaults ==
    [version |-> 1, cache_size_gb |-> 10, chunk_mb |-> 8, clean_interval_min |-> 30,
     connect_timeout_sec |-> 10, retry_interval_sec |-> 15, max_retry_sec |-> 300,
     max_concurrent_uploads |-> 4, disk_min_free_percent |-> 10]

IntKeys == DOMAIN IntDefaults

ConfigKeys == IntKeys \cup {"cache_dir", "enable"}

\* The values an operator writes for a key.
KeyValues(k) ==
    IF k = "enable" THEN BOOLEAN
    ELSE IF k = "cache_dir" THEN {"", "/cache"}
    ELSE {-1, 0, 2, 101, IntDefaults[k]}

\* The operator edits the file at most MaxEdits times.
MaxEdits == 2

\* The document writeTemplate writes: cache_dir is commented out.
writeTemplate == [k \in ConfigKeys \ {"cache_dir"} |-> IF k = "enable" THEN TRUE ELSE IntDefaults[k]]

\* yaml.Unmarshal into a zero Config: a key the document lacks keeps the zero
\* value of its field.
Unmarshal(doc) ==
    [k \in ConfigKeys |->
        IF k \in DOMAIN doc THEN doc[k]
        ELSE IF k = "enable" THEN FALSE
        ELSE IF k = "cache_dir" THEN ""
        ELSE 0]

\* Config.applyDefaults: every integer field that is zero takes its default.
configApplyDefaults(c) ==
    [k \in ConfigKeys |-> IF k \in IntKeys /\ c[k] = 0 THEN IntDefaults[k] ELSE c[k]]

\* Config.validate: the keys with an issue.
validate(c) ==
    {k \in IntKeys :
        IF k = "version" THEN c[k] # IntDefaults.version
        ELSE IF k = "disk_min_free_percent" THEN c[k] <= 0 \/ c[k] > 100
        ELSE c[k] <= 0}

NoLoad == [called |-> FALSE, err |-> "nil", issues |-> {}, cfg |-> <<>>]

\* config.yaml is missing, is the template or holds version 1 alone; nobody
\* has called LoadConfig.
ConfigInit ==
    cf \in {[exists |-> e, doc |-> d, edits |-> 0, ret |-> NoLoad] :
               e \in BOOLEAN,
               d \in {writeTemplate, [k \in {"version"} |-> 1]}} \
          {[exists |-> FALSE, doc |-> [k \in {"version"} |-> 1], edits |-> 0, ret |-> NoLoad]}

\* LoadConfig(path) from its first line to its return.
LoadConfig ==
    /\ cf # <<>>
    /\ cf' =
          IF ~cf.exists
          THEN [cf EXCEPT !.exists = TRUE, !.doc = writeTemplate,
                          !.ret = [called |-> TRUE, err |-> "ErrConfigMissing",
                                   issues |-> {}, cfg |-> <<>>]]
          ELSE LET cfg == configApplyDefaults(Unmarshal(cf.doc))
                   issues == validate(cfg)
               IN  IF issues # {}
                   THEN [cf EXCEPT !.ret = [called |-> TRUE, err |-> "ValidationError",
                                            issues |-> issues, cfg |-> <<>>]]
                   ELSE [cf EXCEPT !.ret = [called |-> TRUE, err |-> "nil",
                                            issues |-> {}, cfg |-> cfg]]
    /\ UNCHANGED NotConfig

\* The operator writes a key of the file, or takes one out.
WriteKey(k, v) ==
    /\ cf # <<>>
    /\ cf.exists
    /\ cf.edits < MaxEdits
    /\ cf' = [cf EXCEPT !.doc = [j \in DOMAIN cf.doc \cup {k} |-> IF j = k THEN v ELSE cf.doc[j]],
                        !.edits = @ + 1, !.ret = NoLoad]
    /\ UNCHANGED NotConfig

RemoveKey(k) ==
    /\ cf # <<>>
    /\ cf.exists
    /\ cf.edits < MaxEdits
    /\ k \in DOMAIN cf.doc
    /\ cf' = [cf EXCEPT !.doc = [j \in DOMAIN cf.doc \ {k} |-> cf.doc[j]],
                        !.edits = @ + 1, !.ret = NoLoad]
    /\ UNCHANGED NotConfig

ConfigNext ==
    \/ LoadConfig
    \/ \E k \in ConfigKeys : \E v \in KeyValues(k) : WriteKey(k, v)
    \/ \E k \in ConfigKeys : RemoveKey(k)

InitConfig ==
    /\ ConfigInit
    /\ files = <<>>
    /\ CleanerIdle
    /\ UploaderIdle
    /\ ContainerIdle
    /\ NoClients
    /\ NoDatabase
    /\ NoProvider

SpecConfig == InitConfig /\ [][ConfigNext]_vars

\* C33: after a LoadConfig that succeeded, every key the file omits has its
\* documented default (version 1, cache_dir empty, cache_size_gb 10, chunk_mb 8,
\* clean_interval_min 30, upload 10/15/300/4, fail_safe.enable true,
\* disk_min_free_percent 10); and loading the template LoadConfig writes
\* succeeds with exactly those defaults.
C33_OmittedKeysTakeDefaults ==
    LET documented ==
            [version |-> 1, cache_dir |-> "", cache_size_gb |-> 10, chunk_mb |-> 8,
             clean_interval_min |-> 30, connect_timeout_sec |-> 10,
             retry_interval_sec |-> 15, max_retry_sec |-> 300,
             max_concurrent_uploads |-> 4, enable |-> TRUE, disk_min_free_percent |-> 10]
    IN  (cf # <<>> /\ cf.ret.called /\ cf.ret.err # "ErrConfigMissing")
            => /\ cf.ret.err = "nil" =>
                     \A k \in ConfigKeys \ DOMAIN cf.doc : cf.ret.cfg[k] = documented[k]
               /\ cf.doc = writeTemplate => (cf.ret.err = "nil" /\ cf.ret.cfg = documented)
====
